---- MODULE Spec2Model ----
(***************************************************************************)
(* Verification model of the odds pipeline (voibet/avai_v2).               *)
(*                                                                         *)
(*   odds-processor : Cache (apply_update / evict_oldest / fair odds),     *)
(*                    WebSocket session (handle_socket,                    *)
(*                    send_filtered_snapshot), the update-apply task,      *)
(*                    the TCP listener,                                    *)
(*                    the filter evaluator (compare, arithmetic, history,  *)
(*                    per_line_and, vector aggregates).                    *)
(*   odds-engine    : MonacoOrderBook (initialize / update / remove), the  *)
(*                    Monaco stream handlers and their persistence, the    *)
(*                    Pinnacle poll cycle and its history merge, the       *)
(*                    processor client and the Monaco stream client.       *)
(*                                                                         *)
(* Several specifications share the variables below; each one drives the   *)
(* part of the program it is about and leaves the other variables alone.   *)
(*   SpecCache : Cache::apply_update over fixtures, any max_fixtures       *)
(*   SpecCols  : Cache::apply_update with arbitrary column subsets         *)
(*   SpecHist  : one bookmaker slot driven past the 20-deep history cap    *)
(*   SpecWS    : apply task + broadcast + one WebSocket session            *)
(*   SpecBook  : MonacoOrderBook under initialize / update / remove        *)
(*   SpecMonaco   : Monaco price and status messages, handled in any order *)
(*   SpecPinnacle : poll cycles of one Pinnacle event                      *)
(*   SpecFair     : calculate_fair_odds as a function of its arguments     *)
(*   SpecFilter   : the filter evaluator as a function of document and     *)
(*                  expression                                             *)
(*   SpecIngest   : the TCP listener, the update channel and the apply     *)
(*                  task of the processor                                  *)
(*   SpecLock     : the apply task and a session's snapshot on the cache   *)
(*                  lock                                                   *)
(*   SpecLag      : SpecWS with a broadcast channel the session can        *)
(*                  overrun                                                *)
(*   SpecClient   : ProcessorClient::send from concurrent tasks            *)
(*   SpecStream   : the Monaco stream client's connect / listen loop       *)
(*   SpecRefair   : Cache::apply_update with accepted and rejected odds    *)
(*   SpecMerge    : merge_odds_entry on one history column                 *)
(*   SpecBackoff  : the reconnect delay of the Monaco stream client        *)
(*   SpecLines    : the line-value comparisons of the filter evaluator     *)
(*   SpecHandlers : two spawned price handlers, step by step               *)
(*   SpecBurst    : the update channel under a burst the apply task lags   *)
(*   SpecRefresh  : the periodic market refresh beside the handlers        *)
(*                                                                         *)
(* Conventions: Option<T> is a sequence, None = <<>> and Some(v) = <<v>>.  *)
(* Maps are functions whose DOMAIN is the set of keys present.  Odds are   *)
(* fixed-point integers; prices, liquidities and line values are integers  *)
(* standing for the f64 values of the source.                              *)
(***************************************************************************)
EXTENDS Integers, Sequences, FiniteSets, TLC

VARIABLES
    cache,          \* Cache {fixtures, eviction_queue, max_fixtures}
    lastUpdate,     \* Option<OddsUpdate>: the update consumed by the latest apply_update
    preCache,       \* the Cache as it was before the latest apply_update
    applied,        \* SpecHist: current snapshots of the tracked slot, one per apply, in apply order
    irregular,      \* SpecHist: number of updates so far whose timestamp was off the clock
    pending_ws,     \* apply task: Option<WsMessage> built but not yet broadcast
    rx,             \* the session's broadcast receiver queue (Seq of WsMessage)
    client_state,   \* ClientState {filter, matching_fixtures}
    send_task,      \* the session's send task: pc and the locals it carries across awaits
    socket,         \* messages written to the WebSocket by the latest step
    handled,        \* the broadcast message the send task handled last, and what was written for it
    verdict,        \* fixture -> result of the latest evaluation of the session's filter for it
    epoch,          \* number of client requests processed by the session
    lastStep,       \* name of the latest step of the session or the apply task
    nUpdates,       \* number of updates applied (SpecWS / SpecCache step bound)
    order_books,    \* MonacoOrderBook.order_books: key -> (outcome -> ladder)
    lastBookOp,     \* the latest order-book operation and the book before it
    monaco_tasks,   \* Seq of stream messages whose spawned handler has not run yet
    now,            \* the engine's clock (Utc::now), in seconds
    monaco_db,      \* Option: the football_odds row of (fixture, "Monaco")
    processor_out,  \* Option<OddsUpdate>: what the latest engine step sent to the processor
    lastMonacoMsg,  \* the Monaco stream message handled last
    sinceClose,     \* market type -> <<outcome, price>> of the entries handled since its book was last dropped
    closedTypes,    \* the market types whose book has been dropped at least once
    market_map,     \* SpecRefresh: AppState.market_mapping, mapping key -> MarketMapping
    refresh_task,   \* SpecRefresh: the periodic market refresh: pc, runs so far, latest lookup
    pinnacle_db,    \* Option: the football_odds row of (fixture, "Pinnacle")
    lastPoll,       \* the latest Pinnacle poll of the event: its period and what it did
    call,           \* function specifications: the arguments of the call
    ret,            \* function specifications: what the call returned
    tcp_conns,      \* processor TCP listener: the accepted connections, in accept order
    update_channel, \* the update channel: updates published and not yet received
    apply_task,     \* the update-apply task of main(): pc and the update it holds
    cache_lock,     \* the RwLock around the cache: its readers and its writer
    snapshot_task,  \* a session inside send_filtered_snapshot: pc and fixtures left to send
    applied_log,    \* the origins of the updates applied to the cache, in apply order
    rx_missed,      \* broadcast messages the session's receiver lost to newer ones
    client_stream,  \* ProcessorClient.stream: Option of the connection's id
    senders,        \* the tasks inside ProcessorClient::send: pc and message of each
    wire,           \* connection id -> the messages written to that connection
    monaco_ws,      \* MonacoWebSocketClient::start: pc, retry_count, the connection
    forwarded       \* the stream messages the Monaco client forwarded to its subscribers

vars == << cache, lastUpdate, preCache, applied, irregular, pending_ws, rx, client_state,
           send_task, socket, handled, verdict, epoch, lastStep, nUpdates, order_books,
           lastBookOp, monaco_tasks, now, monaco_db, processor_out, lastMonacoMsg,
           sinceClose, closedTypes, market_map, refresh_task, pinnacle_db, lastPoll, call, ret, tcp_conns,
           update_channel, apply_task, cache_lock, snapshot_task, applied_log, rx_missed,
           client_stream, senders, wire, monaco_ws, forwarded >>

cacheVars == << cache, lastUpdate, preCache >>
histVars  == << applied, irregular >>
wsVars    == << pending_ws, rx, client_state, send_task, socket, handled, verdict, epoch,
               lastStep >>
bookVars  == << order_books, lastBookOp >>
monacoVars == << monaco_tasks, now, monaco_db, processor_out, lastMonacoMsg, sinceClose,
                closedTypes, market_map, refresh_task >>
pinnacleVars == << pinnacle_db, lastPoll >>
callVars  == << call, ret >>
ingestVars == << tcp_conns, update_channel, apply_task, cache_lock, snapshot_task,
                 applied_log >>
clientVars == << client_stream, senders, wire >>
streamVars == << monaco_ws, forwarded >>
netVars   == << ingestVars, rx_missed, clientVars, streamVars >>
idleVars  == << monacoVars, pinnacleVars, callVars, netVars >>

-----------------------------------------------------------------------------
(* Option and map helpers *)

None == << >>
Some(v) == << v >>
IsSome(o) == o # << >>
Unwrap(o) == o[1]

EmptyMap == [x \in {} |-> 0]
MapPut(m, k, v) == [x \in (DOMAIN m) \cup {k} |-> IF x = k THEN v ELSE m[x]]
MapDel(m, k) == [x \in (DOMAIN m) \ {k} |-> m[x]]
GetOr(m, k, d) == IF k \in DOMAIN m THEN m[k] ELSE d

Min2(a, b) == IF a <= b THEN a ELSE b

RECURSIVE Pow10(_)
Pow10(k) == IF k <= 0 THEN 1 ELSE 10 * Pow10(k - 1)

RECURSIVE SumSeq(_)
SumSeq(s) == IF s = << >> THEN 0 ELSE Head(s) + SumSeq(Tail(s))

RECURSIVE ProdSeq(_)
ProdSeq(s) == IF s = << >> THEN 1 ELSE Head(s) * ProdSeq(Tail(s))

\* Vec::get(i).unwrap_or(&0) with a 0-based index i
GetOr0(v, i) == IF i + 1 <= Len(v) THEN v[i + 1] ELSE 0

-----------------------------------------------------------------------------
(* odds-processor: calculations/fair_odds.rs *)

\* MAX_MARGIN = 0.12 as the fraction MAX_MARGIN_NUM / MAX_MARGIN_DEN
MAX_MARGIN_NUM == 12
MAX_MARGIN_DEN == 100

RECURSIVE gcd(_, _)
gcd(a, b) == IF b = 0 THEN a ELSE gcd(b, a % b)

RECURSIVE gcd_all(_, _)
gcd_all(values, g) == IF values = << >> THEN g ELSE gcd_all(Tail(values), gcd(Head(values), g))

\* Positive odds and 10^decimals divided by their common factor: the decimal
\* odds odds[i] / 10^decimals are reduced.odds[i] / reduced.S
reduced_by(odds, decimals, g) ==
    [ odds |-> [ i \in 1..Len(odds) |-> odds[i] \div g ], S |-> Pow10(decimals) \div g ]

reduced(odds, decimals) == reduced_by(odds, decimals, gcd_all(odds, Pow10(decimals)))

\* floor(num * 10^k / den) and the remainder, one decimal digit at a time
RECURSIVE scaled_floor(_, _, _)
scaled_floor(num, den, k) ==
    IF k <= 0 THEN [ q |-> num \div den, r |-> num % den ]
    ELSE [ q |-> scaled_floor(num, den, k - 1).q * 10
                   + (scaled_floor(num, den, k - 1).r * 10) \div den,
           r |-> (scaled_floor(num, den, k - 1).r * 10) % den ]

\* (fair * 10f64.powi(decimals)) as i32 without .round(): truncation
truncate_scaled(num, den, decimals) == scaled_floor(num, den, decimals).q

\* (fair * 10f64.powi(decimals)).round() as i32 for the positive rational
\* fair = num / den (half away from zero)
round_scaled(num, den, decimals) ==
    IF 2 * scaled_floor(num, den, decimals).r >= den
    THEN scaled_floor(num, den, decimals).q + 1
    ELSE scaled_floor(num, den, decimals).q

\* The loop of calculate_fair_odds on reduced odds o over S, with
\* P = prod(o) and Q = sum(P / o_j):
\*   sum_inv = S*Q/P, margin = (S*Q - P)/P,
\*   denominator_i = (n*P*S - (S*Q - P)*o_i) / (P*S),
\*   fair_i = n*o_i*P / (n*P*S - (S*Q - P)*o_i).
fair_from_terms(o, S, P, Q, decimals, n) ==
    IF (S * Q - P) * MAX_MARGIN_DEN > MAX_MARGIN_NUM * P THEN None
    ELSE IF \E i \in 1..Len(o) : n * P * S - (S * Q - P) * o[i] <= 0 THEN None
    ELSE Some([ i \in 1..Len(o) |->
                  round_scaled(n * o[i] * P, n * P * S - (S * Q - P) * o[i], decimals) ])

fair_of_reduced(r, decimals, n) ==
    fair_from_terms(r.odds, r.S, ProdSeq(r.odds),
                    SumSeq([ i \in 1..Len(r.odds) |-> ProdSeq(r.odds) \div r.odds[i] ]),
                    decimals, n)

\* fair_from_terms without the MAX_MARGIN rejection
fair_any_margin(o, S, P, Q, decimals, n) ==
    IF \E i \in 1..Len(o) : n * P * S - (S * Q - P) * o[i] <= 0 THEN None
    ELSE Some([ i \in 1..Len(o) |->
                  round_scaled(n * o[i] * P, n * P * S - (S * Q - P) * o[i], decimals) ])

fair_of_reduced_any_margin(r, decimals, n) ==
    fair_any_margin(r.odds, r.S, ProdSeq(r.odds),
                    SumSeq([ i \in 1..Len(r.odds) |-> ProdSeq(r.odds) \div r.odds[i] ]),
                    decimals, n)

\* calculate_fair_odds without the MAX_MARGIN rejection
calculate_fair_odds_any_margin(odds, decimals, n) ==
    IF Len(odds) # n THEN None
    ELSE IF \E i \in 1..Len(odds) : odds[i] <= 0 THEN None
    ELSE fair_of_reduced_any_margin(reduced(odds, decimals), decimals, n)

\* calculate_fair_odds(odds, decimals, n) in exact rational arithmetic on the
\* decimal odds odds[i] / 10^decimals
calculate_fair_odds(odds, decimals, n) ==
    IF Len(odds) # n THEN None
    ELSE IF \E i \in 1..Len(odds) : odds[i] <= 0 THEN None
    ELSE fair_of_reduced(reduced(odds, decimals), decimals, n)

-----------------------------------------------------------------------------
(* odds-processor: types/mod.rs *)

\* The current snapshot of a bookmaker slot, as BookmakerOdds::default() leaves it
OddsSnapshot_default ==
    [ timestamp |-> 0,
      x12_h |-> None, x12_x |-> None, x12_a |-> None,
      fair_x12_h |-> None, fair_x12_x |-> None, fair_x12_a |-> None,
      ah_lines |-> << >>, ah_h |-> << >>, ah_a |-> << >>,
      fair_ah_h |-> << >>, fair_ah_a |-> << >>,
      ou_lines |-> << >>, ou_o |-> << >>, ou_u |-> << >>,
      fair_ou_o |-> << >>, fair_ou_u |-> << >>,
      ids |-> None, max_stakes |-> None, latest_t |-> None ]

BookmakerOdds_default ==
    [ bookie_id |-> 0, decimals |-> 0,
      current |-> OddsSnapshot_default, history |-> << >> ]

FixtureData_new(fixture_id) ==
    [ fixture_id |-> fixture_id, bookmakers |-> EmptyMap, last_update |-> 0 ]

\* The columns an OddsUpdate may carry (each an Option)
Columns == { "x12", "ah_lines", "ah_h", "ah_a", "ou_lines", "ou_o", "ou_u",
             "ids", "max_stakes", "latest_t" }

\* An OddsUpdate none of whose optional columns is present
OddsUpdate_default(fixture_id, bookmaker, timestamp) ==
    [ fixture_id |-> fixture_id, bookie_id |-> 1, bookmaker |-> bookmaker,
      timestamp |-> timestamp, start |-> timestamp, decimals |-> 1,
      x12 |-> None, ah_lines |-> None, ah_h |-> None, ah_a |-> None,
      ou_lines |-> None, ou_o |-> None, ou_u |-> None,
      ids |-> None, max_stakes |-> None, latest_t |-> None ]

-----------------------------------------------------------------------------
(* odds-processor: cache/mod.rs *)

\* The number of history snapshots kept per bookmaker
HISTORY_CAP == 20

Cache_new(max_fixtures) ==
    [ fixtures |-> EmptyMap, eviction_queue |-> {}, max_fixtures |-> max_fixtures ]

\* BTreeMap order of the eviction keys (last_update, fixture_id)
KeyLess(a, b) == a[1] < b[1] \/ (a[1] = b[1] /\ a[2] < b[2])

\* Faulty variant: the last key in BTreeMap order (evicts the newest fixture)
LastKey(q) == CHOOSE k \in q : \A k2 \in q : k2 = k \/ KeyLess(k2, k)

\* eviction_queue.keys().next(): the first key in BTreeMap order
FirstKey(q) == CHOOSE k \in q : \A k2 \in q : k2 = k \/ KeyLess(k, k2)

\* evict_oldest leaving the evicted fixture's key in the eviction queue
evict_keeping_key(c) ==
    IF c.eviction_queue = {} THEN c
    ELSE [ c EXCEPT !.fixtures = MapDel(c.fixtures, FirstKey(c.eviction_queue)[2]) ]

evict_oldest(c) ==
    IF c.eviction_queue = {} THEN c
    ELSE LET oldest_key == FirstKey(c.eviction_queue)
         IN  [ c EXCEPT !.fixtures = MapDel(c.fixtures, oldest_key[2]),
                        !.eviction_queue = c.eviction_queue \ {oldest_key} ]

\* Faulty variant: the snapshot is pushed to the back, the front is dropped at the cap
push_history_back(bookie_odds) ==
    IF bookie_odds.current.timestamp > 0
    THEN LET pushed == Append(bookie_odds.history, bookie_odds.current)
         IN  IF Len(pushed) > HISTORY_CAP THEN Tail(pushed) ELSE pushed
    ELSE bookie_odds.history

\* "Push current to history if it has data (newest first, max 20 snapshots)"
push_history(bookie_odds) ==
    IF bookie_odds.current.timestamp > 0
    THEN LET pushed == << bookie_odds.current >> \o bookie_odds.history
         IN  IF Len(pushed) > HISTORY_CAP
             THEN SubSeq(pushed, 1, Len(pushed) - 1)
             ELSE pushed
    ELSE bookie_odds.history

\* Faulty variant: a present ah_lines also clears the ah prices the update lacks, and
\* max_stakes is overwritten even when absent
apply_columns_clobbering(current, update) ==
    [ current EXCEPT
        !.timestamp  = update.timestamp,
        !.x12_h      = IF IsSome(update.x12) THEN Some(Unwrap(update.x12)[1]) ELSE @,
        !.x12_x      = IF IsSome(update.x12) THEN Some(Unwrap(update.x12)[2]) ELSE @,
        !.x12_a      = IF IsSome(update.x12) THEN Some(Unwrap(update.x12)[3]) ELSE @,
        !.ah_lines   = IF IsSome(update.ah_lines) THEN Unwrap(update.ah_lines) ELSE @,
        !.ah_h       = IF IsSome(update.ah_h) THEN Unwrap(update.ah_h)
                       ELSE IF IsSome(update.ah_lines) THEN << >> ELSE @,
        !.ah_a       = IF IsSome(update.ah_a) THEN Unwrap(update.ah_a)
                       ELSE IF IsSome(update.ah_lines) THEN << >> ELSE @,
        !.ou_lines   = IF IsSome(update.ou_lines) THEN Unwrap(update.ou_lines) ELSE @,
        !.ou_o       = IF IsSome(update.ou_o) THEN Unwrap(update.ou_o) ELSE @,
        !.ou_u       = IF IsSome(update.ou_u) THEN Unwrap(update.ou_u) ELSE @,
        !.ids        = IF IsSome(update.ids) THEN update.ids ELSE @,
        !.max_stakes = update.max_stakes,
        !.latest_t   = IF IsSome(update.latest_t) THEN update.latest_t ELSE @ ]

\* "Apply odds (only update fields that are Some)" and the DB-format fields
apply_columns(current, update) ==
    [ current EXCEPT
        !.timestamp  = update.timestamp,
        !.x12_h      = IF IsSome(update.x12) THEN Some(Unwrap(update.x12)[1]) ELSE @,
        !.x12_x      = IF IsSome(update.x12) THEN Some(Unwrap(update.x12)[2]) ELSE @,
        !.x12_a      = IF IsSome(update.x12) THEN Some(Unwrap(update.x12)[3]) ELSE @,
        !.ah_lines   = IF IsSome(update.ah_lines) THEN Unwrap(update.ah_lines) ELSE @,
        !.ah_h       = IF IsSome(update.ah_h) THEN Unwrap(update.ah_h) ELSE @,
        !.ah_a       = IF IsSome(update.ah_a) THEN Unwrap(update.ah_a) ELSE @,
        !.ou_lines   = IF IsSome(update.ou_lines) THEN Unwrap(update.ou_lines) ELSE @,
        !.ou_o       = IF IsSome(update.ou_o) THEN Unwrap(update.ou_o) ELSE @,
        !.ou_u       = IF IsSome(update.ou_u) THEN Unwrap(update.ou_u) ELSE @,
        !.ids        = IF IsSome(update.ids) THEN update.ids ELSE @,
        !.max_stakes = IF IsSome(update.max_stakes) THEN update.max_stakes ELSE @,
        !.latest_t   = IF IsSome(update.latest_t) THEN update.latest_t ELSE @ ]

\* One position of the ah / ou fair vectors: the pair's fair odds, or 0 when rejected
FairPair(first, second, i, decimals) ==
    LET fair == calculate_fair_odds(<< GetOr0(first, i), GetOr0(second, i) >>, decimals, 2)
    IN  IF IsSome(fair) THEN Unwrap(fair) ELSE << 0, 0 >>

\* "Recalculate fair odds for this bookmaker"
recalculate_fair(current, decimals) ==
    LET x12_all == IsSome(current.x12_h) /\ IsSome(current.x12_x) /\ IsSome(current.x12_a)
        fair_x12 == IF x12_all
                    THEN calculate_fair_odds(<< Unwrap(current.x12_h), Unwrap(current.x12_x),
                                                Unwrap(current.x12_a) >>, decimals, 3)
                    ELSE None
    IN  [ current EXCEPT
            !.fair_x12_h = IF IsSome(fair_x12) THEN Some(Unwrap(fair_x12)[1]) ELSE @,
            !.fair_x12_x = IF IsSome(fair_x12) THEN Some(Unwrap(fair_x12)[2]) ELSE @,
            !.fair_x12_a = IF IsSome(fair_x12) THEN Some(Unwrap(fair_x12)[3]) ELSE @,
            !.fair_ah_h = [i \in 1..Len(current.ah_lines) |->
                              FairPair(current.ah_h, current.ah_a, i - 1, decimals)[1]],
            !.fair_ah_a = [i \in 1..Len(current.ah_lines) |->
                              FairPair(current.ah_h, current.ah_a, i - 1, decimals)[2]],
            !.fair_ou_o = [i \in 1..Len(current.ou_lines) |->
                              FairPair(current.ou_o, current.ou_u, i - 1, decimals)[1]],
            !.fair_ou_u = [i \in 1..Len(current.ou_lines) |->
                              FairPair(current.ou_o, current.ou_u, i - 1, decimals)[2]] ]

\* "Check if we need to evict (only if new fixture and at capacity)"
needs_eviction(c, fixture_id) ==
    /\ fixture_id \notin DOMAIN c.fixtures
    /\ Cardinality(DOMAIN c.fixtures) >= c.max_fixtures

\* Cache::apply_update: the cache after the update
apply_update(c, update) ==
    LET fid == update.fixture_id
        c1 == IF needs_eviction(c, fid) THEN evict_oldest(c) ELSE c
        \* an existing fixture leaves the eviction queue first
        q1 == IF fid \in DOMAIN c1.fixtures
              THEN c1.eviction_queue \ { << c1.fixtures[fid].last_update, fid >> }
              ELSE c1.eviction_queue
        fixture == IF fid \in DOMAIN c1.fixtures
                   THEN c1.fixtures[fid] ELSE FixtureData_new(fid)
        bookie_odds == IF update.bookmaker \in DOMAIN fixture.bookmakers
                       THEN fixture.bookmakers[update.bookmaker]
                       ELSE BookmakerOdds_default
        history1 == push_history(bookie_odds)
        current1 == apply_columns(bookie_odds.current, update)
        current2 == recalculate_fair(current1, update.decimals)
        bookie_odds1 == [ bookie_id |-> update.bookie_id, decimals |-> update.decimals,
                          current |-> current2, history |-> history1 ]
        fixture1 == [ fixture EXCEPT
                        !.bookmakers = MapPut(fixture.bookmakers, update.bookmaker, bookie_odds1),
                        !.last_update = update.timestamp ]
    IN  [ c1 EXCEPT !.fixtures = MapPut(c1.fixtures, fid, fixture1),
                    !.eviction_queue = q1 \cup { << update.timestamp, fid >> } ]

Cache_len(c) == Cardinality(DOMAIN c.fixtures)

-----------------------------------------------------------------------------
(* Initial values of the variable groups; a specification that does not     *)
(* drive a group keeps it at these values.                                  *)

InitCacheVars(cache0) ==
    /\ cache = cache0
    /\ lastUpdate = None
    /\ preCache = cache0
    /\ nUpdates = 0

InitHistVars ==
    /\ applied = << >>
    /\ irregular = 0

NoHandled == [ fixture_id |-> 0, filtered |-> FALSE, matches_now |-> FALSE,
               was_matching |-> FALSE, set_before |-> {}, set_after |-> {},
               epoch |-> 0, wrote |-> << >>, done |-> FALSE ]

SendTask_idle == [ pc |-> "recv", fixture_id |-> 0, should_send |-> FALSE,
                   send_removal |-> FALSE, msg |-> None ]

\* A session whose connect-time snapshot left it in client state cs0
InitSession(cs0) ==
    /\ pending_ws = None
    /\ rx = << >>
    /\ client_state = cs0
    /\ send_task = SendTask_idle
    /\ socket = << >>
    /\ handled = NoHandled
    /\ verdict = EmptyMap
    /\ epoch = 0
    /\ lastStep = "init"

InitWsVars == InitSession([ filter |-> None, matching_fixtures |-> {} ])

NoBookOp == [ op |-> "none", key |-> << 0, "x12" >>, message |-> << >>, before |-> EmptyMap ]

InitBookVars ==
    /\ order_books = EmptyMap
    /\ lastBookOp = NoBookOp

\* The refresh task between two ticks of its interval
RefreshTask_idle == [ pc |-> "idle", runs |-> 0, found |-> None ]

NoMonacoMsg == [ type |-> "none", message |-> None, market_type |-> None, handled |-> FALSE ]

InitMonacoVars(row) ==
    /\ monaco_tasks = << >>
    /\ now = 1
    /\ monaco_db = row
    /\ processor_out = None
    /\ lastMonacoMsg = NoMonacoMsg
    /\ sinceClose = EmptyMap
    /\ closedTypes = {}
    /\ market_map = EmptyMap
    /\ refresh_task = RefreshTask_idle

NoPoll == [ polled |-> FALSE ]

InitPinnacleVars ==
    /\ pinnacle_db = None
    /\ lastPoll = NoPoll

InitCallVars ==
    /\ call = None
    /\ ret = None

ApplyTask_idle == [ pc |-> "recv", update |-> None ]

Unlocked == [ readers |-> {}, writer |-> None ]

SnapshotTask_idle == [ pc |-> "idle", left |-> << >>, taken |-> 0 ]

InitIngestVars ==
    /\ tcp_conns = << >>
    /\ update_channel = << >>
    /\ apply_task = ApplyTask_idle
    /\ cache_lock = Unlocked
    /\ snapshot_task = SnapshotTask_idle
    /\ applied_log = << >>

InitClientVars ==
    /\ client_stream = None
    /\ senders = << >>
    /\ wire = EmptyMap

\* start() before its first connect; "last" is the frame handled last and the
\* retry_count it found
MonacoWs_new == [ pc |-> "backoff", retry_count |-> 0, connection |-> 0, subscribed |-> FALSE,
                  last |-> [ kind |-> "none", retry_count |-> 0 ] ]

InitStreamVars ==
    /\ monaco_ws = MonacoWs_new
    /\ forwarded = << >>

InitNetVars == InitIngestVars /\ rx_missed = 0 /\ InitClientVars /\ InitStreamVars

InitIdleVars == InitMonacoVars(None) /\ InitPinnacleVars /\ InitCallVars /\ InitNetVars

\* The step every cache specification takes: one apply_update under the write lock
CacheApply(update) ==
    /\ cache' = apply_update(cache, update)
    /\ lastUpdate' = Some(update)
    /\ preCache' = cache
    /\ nUpdates' = nUpdates + 1

-----------------------------------------------------------------------------
(* SpecCache: apply_update over several fixtures, for every small           *)
(* configured max_fixtures, with update timestamps in any order.            *)

MaxCacheUpdates == 4

CacheFixtures == { 1, 2, 3 }
CacheTimestamps == { 1, 2, 3 }
CacheMaxFixtures == { 0, 1, 2 }

CacheUpdates ==
    { [ OddsUpdate_default(f, "A", t) EXCEPT !.x12 = Some(<< 20, 30, 40 >>) ] :
        f \in CacheFixtures, t \in CacheTimestamps }

InitCache ==
    /\ \E m \in CacheMaxFixtures : InitCacheVars(Cache_new(m))
    /\ InitHistVars /\ InitWsVars /\ InitBookVars /\ InitIdleVars

ApplyCacheUpdate ==
    /\ nUpdates < MaxCacheUpdates
    /\ \E u \in CacheUpdates : CacheApply(u)
    /\ UNCHANGED << histVars, wsVars, bookVars, idleVars >>

NextCache == ApplyCacheUpdate

SpecCache == InitCache /\ [][NextCache]_vars

\* What the latest apply_update evicted
Evicted == (DOMAIN preCache.fixtures) \ (DOMAIN cache.fixtures)

EvictionKey(c, f) == << c.fixtures[f].last_update, f >>

\* C4: after any sequence of apply_update calls the cache never holds more than
\* max_fixtures fixtures, whatever value of max_fixtures is configured.
C4_NeverExceedsMax == Cache_len(cache) <= cache.max_fixtures

CurrentKeys(c) == { EvictionKey(c, f) : f \in DOMAIN c.fixtures }

\* C29: after any sequence of apply_update calls the eviction queue holds
\* exactly one entry (last_update, fixture_id) for every cached fixture, keyed
\* by its current last_update, and no entry for a fixture that is not cached.
C29_EvictionIndexExact ==
    /\ cache.eviction_queue = CurrentKeys(cache)
    /\ Cardinality(cache.eviction_queue) = Cache_len(cache)
    /\ \A key \in cache.eviction_queue : key[2] \in DOMAIN cache.fixtures

\* C29 witness: the latest update evicted a fixture and left two cached, or
\* moved a cached fixture to another last_update next to a second fixture
C29_Witness ==
    /\ IsSome(lastUpdate)
    /\ Cache_len(cache) = 2
    /\ nUpdates = MaxCacheUpdates
    /\ \/ Evicted # {}
       \/ /\ Unwrap(lastUpdate).fixture_id \in DOMAIN preCache.fixtures
          /\ preCache.fixtures[Unwrap(lastUpdate).fixture_id].last_update
               > Unwrap(lastUpdate).timestamp

-----------------------------------------------------------------------------
(* SpecCols: apply_update on the slots of one fixture with updates that     *)
(* carry every column but one, one column only, all columns or none.        *)

MaxColUpdates == 2

ColBookmakers == { "A", "B" }

\* The column subsets the updates of SpecCols carry
ColShapes ==
    { {} } \cup { {c} : c \in Columns } \cup { Columns \ {c} : c \in Columns } \cup { Columns }

\* The value of column c in the v-th update; no two columns share a value
ColumnValue(c, v) ==
    CASE c = "x12"        -> << 20 + v, 30 + v, 40 + v >>
      [] c = "ah_lines"   -> IF v % 2 = 1 THEN << -1, 0 >> ELSE << v >>
      [] c = "ah_h"       -> << 18 + v, 21 >>
      [] c = "ah_a"       -> << 23, 19 + v >>
      [] c = "ou_lines"   -> << 2 + v, 9 >>
      [] c = "ou_o"       -> << 17 + v, 25 >>
      [] c = "ou_u"       -> << 24, 16 + v >>
      [] c = "ids"        -> 100 + v
      [] c = "max_stakes" -> 200 + v
      [] c = "latest_t"   -> 300 + v

ColUpdate(bookmaker, shape, v) ==
    [ c \in DOMAIN OddsUpdate_default(1, bookmaker, v + 1) |->
        IF c \in shape THEN Some(ColumnValue(c, v))
        ELSE OddsUpdate_default(1, bookmaker, v + 1)[c] ]

\* The cache as main() hydrates it at startup: here from one stored row of bookmaker "B"
ColsHydrated == apply_update(Cache_new(1), ColUpdate("B", Columns, 0))

InitCols ==
    /\ InitCacheVars(ColsHydrated)
    /\ InitHistVars /\ InitWsVars /\ InitBookVars /\ InitIdleVars

ApplyColUpdate ==
    /\ nUpdates < MaxColUpdates
    /\ \E b \in ColBookmakers, shape \in ColShapes : CacheApply(ColUpdate(b, shape, nUpdates + 1))
    /\ UNCHANGED << histVars, wsVars, bookVars, idleVars >>

NextCols == ApplyColUpdate

SpecCols == InitCols /\ [][NextCols]_vars

\* The slot an update addresses, in cache c (the default slot when it is not there yet)
SlotOf(c, update) ==
    IF update.fixture_id \in DOMAIN c.fixtures
       /\ update.bookmaker \in DOMAIN c.fixtures[update.fixture_id].bookmakers
    THEN c.fixtures[update.fixture_id].bookmakers[update.bookmaker]
    ELSE BookmakerOdds_default

BookmakersOf(c, fixture_id) ==
    IF fixture_id \in DOMAIN c.fixtures THEN c.fixtures[fixture_id].bookmakers ELSE EmptyMap

\* Column c as a current snapshot holds it
SnapshotColumn(current, c) ==
    IF c = "x12" THEN << current.x12_h, current.x12_x, current.x12_a >> ELSE current[c]

\* Column c of a snapshot that took it from the update
WrittenColumn(update, c) ==
    CASE c = "x12" -> << Some(Unwrap(update.x12)[1]), Some(Unwrap(update.x12)[2]),
                         Some(Unwrap(update.x12)[3]) >>
      [] c \in { "ids", "max_stakes", "latest_t" } -> update[c]
      [] OTHER -> Unwrap(update[c])

\* C6: apply_update overwrites on the addressed bookmaker's current snapshot exactly
\* the columns present in the update; an absent column keeps its previous value, and
\* the slots of the fixture's other bookmakers are unchanged.
C6_OnlyPresentColumnsWritten ==
    IsSome(lastUpdate) =>
      LET u == Unwrap(lastUpdate)
          before == SlotOf(preCache, u).current
          after == SlotOf(cache, u).current
          othersBefore == BookmakersOf(preCache, u.fixture_id)
          othersAfter == BookmakersOf(cache, u.fixture_id)
      IN  /\ \A c \in Columns :
                SnapshotColumn(after, c) =
                    IF IsSome(u[c]) THEN WrittenColumn(u, c) ELSE SnapshotColumn(before, c)
          /\ DOMAIN othersAfter = (DOMAIN othersBefore) \cup { u.bookmaker }
          /\ \A b \in (DOMAIN othersBefore) \ { u.bookmaker } : othersAfter[b] = othersBefore[b]

\* C6 witness: a one-column update on a slot whose other columns were all written
\* before, next to another bookmaker's slot
C6_Witness ==
    /\ IsSome(lastUpdate)
    /\ LET u == Unwrap(lastUpdate)
           before == SlotOf(preCache, u).current
       IN  /\ IsSome(u.ah_a) /\ ~IsSome(u.ah_h) /\ ~IsSome(u.x12)
           /\ before.ah_h # << >> /\ IsSome(before.x12_h)
           /\ Unwrap(u.ah_a) # before.ah_a
           /\ (DOMAIN BookmakersOf(preCache, u.fixture_id)) \ { u.bookmaker } # {}

-----------------------------------------------------------------------------
(* SpecHist: one bookmaker slot driven past the history cap.  The k-th      *)
(* update normally carries timestamp k; up to MaxIrregular updates carry a  *)
(* negative, zero or stale timestamp instead.                               *)

MaxHistUpdates == 22
MaxIrregular == 2

IrregularTimestamps == { -1, 0, 1 }

HistSlot == cache.fixtures[1].bookmakers["A"]

InitHist ==
    /\ InitCacheVars(Cache_new(1))
    /\ InitHistVars /\ InitWsVars /\ InitBookVars /\ InitIdleVars

HistStep(timestamp) ==
    /\ CacheApply(OddsUpdate_default(1, "A", timestamp))
    /\ applied' = Append(applied, HistSlot'.current)

ApplyOnClock ==
    /\ nUpdates < MaxHistUpdates
    /\ HistStep(nUpdates + 1)
    /\ UNCHANGED << irregular, wsVars, bookVars, idleVars >>

ApplyOffClock ==
    /\ nUpdates < MaxHistUpdates
    /\ irregular < MaxIrregular
    /\ \E t \in IrregularTimestamps : HistStep(t)
    /\ irregular' = irregular + 1
    /\ UNCHANGED << wsVars, bookVars, idleVars >>

NextHist == ApplyOnClock \/ ApplyOffClock

SpecHist == InitHist /\ [][NextHist]_vars

\* history is the k most recent previous current snapshots, newest first
HistoryIsRecent(k) ==
    /\ Len(HistSlot.history) = k
    /\ \A i \in 1..k : HistSlot.history[i] = applied[Len(applied) - i]

\* C7: after n >= 1 updates with non-zero timestamps, history holds the
\* min(n-1, 20) most recent previous current snapshots, newest at the front; its
\* length never exceeds 20 and the first update creates no history entry.
C7_HistoryNonZero ==
    LET n == Len(applied) IN
    n >= 1 =>
      /\ Len(HistSlot.history) <= HISTORY_CAP
      /\ n = 1 => HistSlot.history = << >>
      /\ (\A i \in 1..n : applied[i].timestamp # 0) => HistoryIsRecent(Min2(n - 1, HISTORY_CAP))

NonIncreasing(history) ==
    \A i \in 1..(Len(history) - 1) : history[i].timestamp >= history[i + 1].timestamp

\* C8 as stated: whatever the order of the update timestamps, history is
\* non-increasing by timestamp from front to back.
C8_HistorySorted == Len(applied) >= 1 => NonIncreasing(HistSlot.history)

\* C8 (amended): history is in reverse apply order; it is non-increasing by timestamp
\* from front to back when the updates were applied with non-decreasing timestamps.
C8_HistorySortedIfMonotone ==
    LET n == Len(applied) IN
    (n >= 1 /\ \A i \in 1..(n - 1) : applied[i].timestamp <= applied[i + 1].timestamp)
        => NonIncreasing(HistSlot.history)

\* C8 witness: a history of several snapshots after updates with non-decreasing,
\* not all distinct, timestamps
C8_Witness ==
    LET n == Len(applied) IN
    /\ n >= 4
    /\ \A i \in 1..(n - 1) : applied[i].timestamp <= applied[i + 1].timestamp
    /\ irregular > 0
    /\ Len(HistSlot.history) >= 3

-----------------------------------------------------------------------------
(* odds-processor: filters/ -- the fragment of the filter language the      *)
(* session specifications subscribe with: And / Or / Not over Compare of a  *)
(* scalar field "bookmakers.<bookmaker>.<field>" with a numeric literal.    *)

CompareExpr(bookmaker, field, op, value) ==
    [ kind |-> "compare", bookmaker |-> bookmaker, field |-> field, computed |-> None,
      op |-> op, value |-> value, value_type |-> "number", args |-> << >> ]

\* A Compare whose field is FieldPath::Computed(comp)
ComputedCompareExpr(comp, op, value) ==
    [ kind |-> "compare", bookmaker |-> "", field |-> "", computed |-> Some(comp),
      op |-> op, value |-> value, value_type |-> "number", args |-> << >> ]

\* A Compare whose value is a literal that is neither a number nor an array
\* of numbers (a string without '.', '[' or '$', a boolean, an object)
MistypedCompareExpr(bookmaker, field, op) ==
    [ kind |-> "compare", bookmaker |-> bookmaker, field |-> field, computed |-> None,
      op |-> op, value |-> Some(0), value_type |-> "string", args |-> << >> ]

Combinator(kind, args) ==
    [ kind |-> kind, bookmaker |-> "", field |-> "", computed |-> None, op |-> "",
      value |-> None, value_type |-> "number", args |-> args ]

\* ComputedValue { op, left, right } over the operands of ValueOrComputed
FieldOperand(bookmaker, field) == [ tag |-> "field", bookmaker |-> bookmaker, field |-> field, number |-> 0 ]
LiteralOperand(number) == [ tag |-> "literal", bookmaker |-> "", field |-> "", number |-> number ]
ComputedValue(op, left, right) == [ op |-> op, left |-> left, right |-> right ]

\* Paths are tuples: << bookmaker, field >> for "bookmakers.<bookmaker>.<field>"
\* and << bookmaker, field, line >> for "bookmakers.<bookmaker>.<field>[<line>]".
\* Lines are in hundredths (-50 is the line -0.5), odds in thousandths.
LinePath(bookmaker, field, line) == << bookmaker, field, line >>

\* The lines array a line field is labelled with: ah_lines for a field whose
\* name contains "ah", ou_lines otherwise
lines_key(field) ==
    IF field \in { "ah", "ah_h", "ah_a", "fair_ah", "fair_ah_h", "fair_ah_a" }
    THEN "ah_lines" ELSE "ou_lines"

\* (values, paths) as a ResolvedValue, None when nothing was gathered
ResolvedOf(pairs) ==
    IF pairs = << >> THEN None
    ELSE Some([ values |-> [ i \in 1..Len(pairs) |-> pairs[i].value ],
                paths  |-> [ i \in 1..Len(pairs) |-> pairs[i].path ] ])

\* The array branch of resolve_json_path: zero entries are skipped, an entry is
\* labelled with its line, or with its index when the lines array is shorter
RECURSIVE label_array(_, _, _, _, _)
label_array(bookmaker, field, arr, lines, i) ==
    IF i > Len(arr) THEN << >>
    ELSE (IF arr[i] = 0 THEN << >>
          ELSE << [ value |-> arr[i],
                    path  |-> LinePath(bookmaker, field,
                                       IF i <= Len(lines) THEN lines[i] ELSE (i - 1) * 100) ] >>)
         \o label_array(bookmaker, field, arr, lines, i + 1)

\* expand_line_array: every entry that has a line, zero entries included
RECURSIVE expand_line_array(_, _, _, _, _)
expand_line_array(bookmaker, field, arr, lines, i) ==
    IF i > Len(arr) THEN << >>
    ELSE (IF i <= Len(lines)
          THEN << [ value |-> arr[i], path |-> LinePath(bookmaker, field, lines[i]) ] >>
          ELSE << >>)
         \o expand_line_array(bookmaker, field, arr, lines, i + 1)

\* expand_x12: the outcomes that are present, in the order h, x, a
expand_x12(bookmaker, current) ==
    LET one(field) == IF IsSome(current[field])
                      THEN << [ value |-> Unwrap(current[field]), path |-> << bookmaker, field >> ] >>
                      ELSE << >>
    IN  one("x12_h") \o one("x12_x") \o one("x12_a")

\* resolve_aggregate for the parts "ah", "ou" and "x12"
resolve_aggregate(bookmaker, current, part) ==
    CASE part = "ah" ->
           ResolvedOf(expand_line_array(bookmaker, "ah_h", current.ah_h, current.ah_lines, 1)
                      \o expand_line_array(bookmaker, "ah_a", current.ah_a, current.ah_lines, 1))
      [] part = "ou" ->
           ResolvedOf(expand_line_array(bookmaker, "ou_o", current.ou_o, current.ou_lines, 1)
                      \o expand_line_array(bookmaker, "ou_u", current.ou_u, current.ou_lines, 1))
      [] part = "x12" -> ResolvedOf(expand_x12(bookmaker, current))
      [] OTHER -> None

ScalarFields == { "x12_h", "x12_x", "x12_a", "fair_x12_h", "fair_x12_x", "fair_x12_a" }
ArrayFields  == { "ah_h", "ah_a", "fair_ah_h", "fair_ah_a", "ou_o", "ou_u", "fair_ou_o", "fair_ou_u" }

\* resolve_json_path(data, "bookmakers.<bookmaker>.<field>"): a scalar as a
\* one-element ResolvedValue, a line array as its non-zero entries labelled by
\* line, an aggregate by resolve_aggregate; None for a missing bookmaker, a
\* null field, an array with nothing to gather or an unknown part
resolve_json_path(data, bookmaker, field) ==
    IF bookmaker \notin DOMAIN data.bookmakers THEN None
    ELSE LET current == data.bookmakers[bookmaker].current
         IN  IF field \in ScalarFields
             THEN (IF IsSome(current[field])
                   THEN Some([ values |-> << Unwrap(current[field]) >>,
                               paths |-> << << bookmaker, field >> >> ])
                   ELSE None)
             ELSE IF field \in ArrayFields
             THEN ResolvedOf(label_array(bookmaker, field, current[field],
                                         current[lines_key(field)], 1))
             ELSE resolve_aggregate(bookmaker, current, field)

\* compare(l, op, r); eq / neq hold within 1e-5, which is equality on the integers here
compare(l, op, r) ==
    CASE op = "eq"  -> l = r
      [] op = "neq" -> l # r
      [] op = "gt"  -> l > r
      [] op = "gte" -> l >= r
      [] op = "lt"  -> l < r
      [] op = "lte" -> l <= r
      [] OTHER      -> FALSE

\* FilterContext::record_simple_match
MatchTrace(path, value, op, threshold) ==
    [ op |-> op, threshold |-> threshold, result |-> value, matched |-> TRUE, path |-> path ]

\* Whether a left value satisfies the comparison (every value satisfies exists)
CompareSat(op, value, v) ==
    CASE op = "exists" -> TRUE
      [] op = "in"     -> v = Unwrap(value)
      [] OTHER         -> compare(v, op, Unwrap(value))

\* The traces recorded for the left values that satisfy the comparison, in order
RECURSIVE TracesOf(_, _, _, _)
TracesOf(left, i, op, value) ==
    IF i > Len(left.values) THEN << >>
    ELSE (IF CompareSat(op, value, left.values[i])
          THEN << MatchTrace(left.paths[i], Some(left.values[i]), op,
                             IF op = "exists" THEN None ELSE value) >>
          ELSE << >>) \o TracesOf(left, i + 1, op, value)

\* ---- filters/arithmetic.rs ----
\* An arithmetic result is an exact fraction num / den with den > 0: the f64
\* quotient of two small integers orders and equals as the fraction does.
Frac(num, den) == IF den < 0 THEN [ num |-> 0 - num, den |-> 0 - den ] ELSE [ num |-> num, den |-> den ]
FracEq(a, b) == a.num * b.den = b.num * a.den

\* perform_op on two numbers; a division by zero is None
perform_op_unguarded(op, l, r) ==
    CASE op = "add"      -> Some(Frac(l + r, 1))
      [] op = "subtract" -> Some(Frac(l - r, 1))
      [] op = "multiply" -> Some(Frac(l * r, 1))
      [] op = "divide"   -> Some(Frac(l, IF r = 0 THEN 1 ELSE r))
      [] OTHER           -> None

perform_op(op, l, r) ==
    CASE op = "add"      -> Some(Frac(l + r, 1))
      [] op = "subtract" -> Some(Frac(l - r, 1))
      [] op = "multiply" -> Some(Frac(l * r, 1))
      [] op = "divide"   -> IF r # 0 THEN Some(Frac(l, r)) ELSE None
      [] OTHER           -> None

\* resolve_value_or_computed on a literal number or a field operand
resolve_value_or_computed(operand, data) ==
    IF operand.tag = "literal"
    THEN Some([ values |-> << operand.number >>, paths |-> << << "literal" >> >> ])
    ELSE resolve_json_path(data, operand.bookmaker, operand.field)

\* The result pairs of one operand pair: empty when perform_op is None
op_pair(op, l, r, path) ==
    LET res == perform_op(op, l, r)
    IN  IF IsSome(res) THEN << [ value |-> Unwrap(res), path |-> path ] >> ELSE << >>

RECURSIVE op_each_left(_, _, _, _)
op_each_left(op, left, r_val, i) ==
    IF i > Len(left.values) THEN << >>
    ELSE op_pair(op, left.values[i], r_val, left.paths[i]) \o op_each_left(op, left, r_val, i + 1)

RECURSIVE op_each_right(_, _, _, _)
op_each_right(op, l_val, right, i) ==
    IF i > Len(right.values) THEN << >>
    ELSE op_pair(op, l_val, right.values[i], right.paths[i]) \o op_each_right(op, l_val, right, i + 1)

\* FilterContext::new(data): no variables, no traces and no history provider.
\* Every evaluation of the processor builds its context this way.
FilterContext_new(data) == [ data |-> data, history_provider |-> None ]

\* parse_bookmaker_path: "bookmakers.<bookmaker>.<field>" as (bookmaker, field)
parse_bookmaker_path(path) ==
    IF Len(path) >= 2 THEN Some([ bookmaker |-> path[1], field |-> path[2] ]) ELSE None

\* The values of a resolved snapshot field evaluate_history keeps for a left
\* path: all of them, or those on the line of the path if it has one
RECURSIVE history_kept(_, _, _)
history_kept(path, r, i) ==
    IF i > Len(r.values) THEN << >>
    ELSE (IF Len(path) = 3 => (Len(r.paths[i]) = 3 /\ r.paths[i][3] = path[3])
          THEN << [ value |-> Frac(r.values[i], 1), path |-> path ] >>
          ELSE << >>) \o history_kept(path, r, i + 1)

history_of_resolved(path, resolved) ==
    IF ~IsSome(resolved) THEN << >> ELSE history_kept(path, Unwrap(resolved), 1)

\* The field of the path in the snapshot the provider returned, if any
history_of_snapshot(path, snapshot) ==
    IF ~IsSome(snapshot) THEN << >>
    ELSE history_of_resolved(path,
           resolve_json_path([ bookmakers |-> [ b \in { path[1] } |->
                                                  [ current |-> Unwrap(snapshot) ] ] ],
                             path[1], path[2]))

\* The values evaluate_history gathers for one left path: nothing without a
\* provider or a snapshot; otherwise the field of the snapshot the provider
\* returns for (bookmaker, max_age_ms), on the line of the path if it has one
history_of_path(path, max_age_ms, ctx) ==
    IF ~IsSome(parse_bookmaker_path(path)) \/ ~IsSome(ctx.history_provider) THEN << >>
    ELSE history_of_snapshot(path,
           Unwrap(ctx.history_provider)[Unwrap(parse_bookmaker_path(path)).bookmaker][max_age_ms])

\* evaluate_history: the right operand is the maximum age in milliseconds
RECURSIVE history_of_paths(_, _, _, _)
history_of_paths(left, i, max_age_ms, ctx) ==
    IF i > Len(left.paths) THEN << >>
    ELSE history_of_path(left.paths[i], max_age_ms, ctx)
         \o history_of_paths(left, i + 1, max_age_ms, ctx)

evaluate_history(left, right, ctx) ==
    ResolvedOf(history_of_paths(left, 1, right.values[1], ctx))

\* The operation of evaluate_standard_arithmetic on two resolved operands: a
\* vector against a scalar, a scalar against a vector, or the two first values
standard_arithmetic_of(op, l, r, data) ==
    IF op = "history" THEN evaluate_history(l, r, FilterContext_new(data))
    ELSE ResolvedOf(
           CASE Len(l.values) > 1 /\ Len(r.values) = 1 -> op_each_left(op, l, r.values[1], 1)
             [] Len(l.values) = 1 /\ Len(r.values) > 1 -> op_each_right(op, l.values[1], r, 1)
             [] OTHER -> op_pair(op, l.values[1], r.values[1], l.paths[1]))

\* None as soon as an operand did not resolve
operands_resolved(op, left, right, data) ==
    IF ~IsSome(left) \/ ~IsSome(right) THEN None
    ELSE standard_arithmetic_of(op, Unwrap(left), Unwrap(right), data)

\* evaluate_standard_arithmetic with a literal on one side at least (two field
\* operands of this fragment always take the line-matching route)
evaluate_standard_arithmetic(comp, data) ==
    operands_resolved(comp.op, resolve_value_or_computed(comp.left, data),
                      resolve_value_or_computed(comp.right, data), data)

\* expand_aggregate_path: the fields an aggregate stands for
expand_aggregate_path(field) ==
    CASE field = "ah"       -> << "ah_h", "ah_a" >>
      [] field = "fair_ah"  -> << "fair_ah_h", "fair_ah_a" >>
      [] field = "ou"       -> << "ou_o", "ou_u" >>
      [] field = "fair_ou"  -> << "fair_ou_o", "fair_ou_u" >>
      [] field = "x12"      -> << "x12_h", "x12_x", "x12_a" >>
      [] field = "fair_x12" -> << "fair_x12_h", "fair_x12_x", "fair_x12_a" >>
      [] OTHER              -> << field >>

\* The fair / raw counterpart find_matching_right_path looks for
corresponding(left_side) ==
    CASE left_side = "ah_h" -> "fair_ah_h" [] left_side = "ah_a" -> "fair_ah_a"
      [] left_side = "ou_o" -> "fair_ou_o" [] left_side = "ou_u" -> "fair_ou_u"
      [] left_side = "fair_ah_h" -> "ah_h" [] left_side = "fair_ah_a" -> "ah_a"
      [] left_side = "fair_ou_o" -> "ou_o" [] left_side = "fair_ou_u" -> "ou_u"
      [] left_side = "x12_h" -> "fair_x12_h" [] left_side = "x12_x" -> "fair_x12_x"
      [] left_side = "x12_a" -> "fair_x12_a"
      [] left_side = "fair_x12_h" -> "x12_h" [] left_side = "fair_x12_x" -> "x12_x"
      [] left_side = "fair_x12_a" -> "x12_a"
      [] OTHER -> left_side

\* find_matching_right_path: the first right field that is the counterpart of
\* the left one or the same field
find_matching_right_path(left_side, right_expanded) ==
    LET hits == { i \in 1..Len(right_expanded) :
                    right_expanded[i] \in { corresponding(left_side), left_side } }
    IN  IF hits = {} THEN None
        ELSE Some(right_expanded[CHOOSE i \in hits : \A j \in hits : i <= j])

ArithmeticDetail(left_path, left_value, right_path, right_value, result, operation) ==
    [ left_path |-> left_path, left_value |-> left_value, right_path |-> right_path,
      right_value |-> right_value, result |-> result, operation |-> operation ]

\* The index of a line in a lines array (lines.iter().position), 0 when absent
line_index(lines, line) ==
    LET hits == { i \in 1..Len(lines) : lines[i] = line }
    IN  IF hits = {} THEN 0 ELSE CHOOSE i \in hits : \A j \in hits : i <= j

\* The AH / OU loop of evaluate_with_line_matching over the left lines: a
\* line missing on the right, odds missing or at most 1000 on either side and
\* a pair perform_op rejects are skipped
RECURSIVE match_lines(_, _, _, _, _, _, _, _)
match_lines(op, lb, left_side, lcur, rb, right_side, rcur, left_idx) ==
    LET left_lines  == lcur[lines_key(left_side)]
        right_lines == rcur[lines_key(left_side)]
    IN  IF left_idx > Len(left_lines) THEN << >>
        ELSE LET left_line == left_lines[left_idx]
                 right_idx == line_index(right_lines, left_line)
                 l_ok == left_idx <= Len(lcur[left_side]) /\ lcur[left_side][left_idx] > 1000
                 r_ok == right_idx > 0 /\ right_idx <= Len(rcur[right_side])
                         /\ rcur[right_side][right_idx] > 1000
             IN  (IF l_ok /\ r_ok
                  THEN LET l_val == lcur[left_side][left_idx]
                           r_val == rcur[right_side][right_idx]
                           res   == perform_op(op, l_val, r_val)
                       IN  IF IsSome(res)
                           THEN << ArithmeticDetail(LinePath(lb, left_side, left_line), l_val,
                                                    LinePath(rb, right_side, left_line), r_val,
                                                    Unwrap(res), op) >>
                           ELSE << >>
                  ELSE << >>)
                 \o match_lines(op, lb, left_side, lcur, rb, right_side, rcur, left_idx + 1)

\* One left field of evaluate_with_line_matching against its right field: the
\* details it adds, or None where the function returns early with `?`
match_field(op, data, lb, left_side, rb, right_side) ==
    IF lb \notin DOMAIN data.bookmakers \/ rb \notin DOMAIN data.bookmakers THEN None
    ELSE LET lcur == data.bookmakers[lb].current
             rcur == data.bookmakers[rb].current
         IN  IF left_side \in ScalarFields
             THEN (IF right_side \notin ScalarFields THEN None
                   ELSE IF ~IsSome(lcur[left_side]) \/ ~IsSome(rcur[right_side]) THEN None
                   ELSE LET l_val == Unwrap(lcur[left_side])
                            r_val == Unwrap(rcur[right_side])
                            res   == perform_op(op, l_val, r_val)
                        IN  IF IsSome(res)
                            THEN Some(<< ArithmeticDetail(<< lb, left_side >>, l_val,
                                                          << rb, right_side >>, r_val,
                                                          Unwrap(res), op) >>)
                            ELSE Some(<< >>))
             ELSE IF right_side \notin ArrayFields THEN None
             ELSE Some(match_lines(op, lb, left_side, lcur, rb, right_side, rcur, 1))

\* The details of one left field followed by those of the later ones, None
\* when either returned early
fields_joined(here, rest) ==
    IF ~IsSome(here) \/ ~IsSome(rest) THEN None ELSE Some(Unwrap(here) \o Unwrap(rest))

RECURSIVE match_fields(_, _, _, _, _, _)
RECURSIVE match_with_right(_, _, _, _, _, _, _)

\* The first left field against the right field found for it
match_with_right(op, data, lb, left_expanded, rb, right_expanded, right) ==
    IF ~IsSome(right) THEN None
    ELSE fields_joined(match_field(op, data, lb, Head(left_expanded), rb, Unwrap(right)),
                       match_fields(op, data, lb, Tail(left_expanded), rb, right_expanded))

\* The loop of evaluate_with_line_matching over the expanded left fields
match_fields(op, data, lb, left_expanded, rb, right_expanded) ==
    IF left_expanded = << >> THEN Some(<< >>)
    ELSE match_with_right(op, data, lb, left_expanded, rb, right_expanded,
                          find_matching_right_path(Head(left_expanded), right_expanded))

\* [result, details] of the details gathered, both None when there are none
line_matching_result(all) ==
    IF ~IsSome(all) \/ all = Some(<< >>) THEN [ result |-> None, details |-> None ]
    ELSE [ result  |-> Some([ values |-> [ i \in 1..Len(Unwrap(all)) |-> Unwrap(all)[i].result ],
                              paths  |-> [ i \in 1..Len(Unwrap(all)) |-> Unwrap(all)[i].left_path ] ]),
           details |-> Some(Unwrap(all)) ]

\* evaluate_with_line_matching: [result, details], both None when nothing was computed
evaluate_with_line_matching(comp, data) ==
    line_matching_result(
      match_fields(comp.op, data,
                   comp.left.bookmaker, expand_aggregate_path(comp.left.field),
                   comp.right.bookmaker, expand_aggregate_path(comp.right.field)))

\* evaluate_arithmetic_with_ctx: [result, details]; two field operands are
\* matched line by line and leave their details in the context
evaluate_arithmetic_with_ctx(comp, data) ==
    IF comp.left.tag = "field" /\ comp.right.tag = "field"
    THEN evaluate_with_line_matching(comp, data)
    ELSE [ result |-> evaluate_standard_arithmetic(comp, data), details |-> None ]

\* resolve_field_with_details: [result, details] of the Compare's field
resolve_field_with_details(cmp, data) ==
    IF IsSome(cmp.computed)
    THEN evaluate_arithmetic_with_ctx(Unwrap(cmp.computed), data)
    ELSE [ result |-> resolve_json_path(data, cmp.bookmaker, cmp.field), details |-> None ]

\* The Compare's value through resolve_value_or_computed: a numeric literal
\* resolves to itself, a literal of another type to None
resolve_compare_value(cmp) ==
    IF ~IsSome(cmp.value) \/ cmp.value_type # "number" THEN None
    ELSE Some([ values |-> << Unwrap(cmp.value) >>, paths |-> << << "literal" >> >> ])

\* Whether a computed left value satisfies the comparison
ComputedSat(op, r_val, l_val) ==
    CASE op = "exists" -> TRUE
      [] op = "in"     -> FracEq(l_val, Frac(r_val, 1))
      [] OTHER         -> compare(l_val.num, op, r_val * l_val.den)

\* record_match: the trace of a match of left.values[idx]; with arithmetic
\* details at hand, the first detail that has the value's path or its result
record_match(left, idx, op, value, arithmetic_details) ==
    LET path == left.paths[idx]
        l_val == left.values[idx]
        found == IF IsSome(arithmetic_details)
                 THEN { k \in 1..Len(Unwrap(arithmetic_details)) :
                          \/ Unwrap(arithmetic_details)[k].left_path = path
                          \/ FracEq(Unwrap(arithmetic_details)[k].result, l_val) }
                 ELSE {}
    IN  IF found # {}
        THEN LET detail == Unwrap(arithmetic_details)[CHOOSE k \in found : \A j \in found : k <= j]
             IN  MatchTrace(detail.left_path, Some(detail.result), op, value)
        ELSE MatchTrace(path, Some(l_val), op, value)

\* The traces recorded for the computed left values that satisfy the comparison
RECURSIVE ComputedTracesOf(_, _, _, _, _)
ComputedTracesOf(left, i, op, value, arithmetic_details) ==
    IF i > Len(left.values) THEN << >>
    ELSE (IF ComputedSat(op, IF op = "exists" THEN 0 ELSE Unwrap(value), left.values[i])
          THEN << IF op \in { "exists", "in" }
                  THEN MatchTrace(left.paths[i], Some(left.values[i]), op,
                                  IF op = "exists" THEN None ELSE value)
                  ELSE record_match(left, i, op, value, arithmetic_details) >>
          ELSE << >>) \o ComputedTracesOf(left, i + 1, op, value, arithmetic_details)

\* The outcome of a Compare given the traces of the left values that satisfy it
compare_outcome(cmp, traces, added) ==
    [ matched |-> cmp.op = "exists" \/ added # << >>, traces |-> traces \o added ]

\* The Compare on its resolved left side: false when it is absent, or when
\* the operator needs a value and the value does not resolve
compare_resolved(cmp, resolved, traces) ==
    IF ~IsSome(resolved.result) THEN [ matched |-> FALSE, traces |-> traces ]
    ELSE IF cmp.op # "exists" /\ ~IsSome(resolve_compare_value(cmp))
    THEN [ matched |-> FALSE, traces |-> traces ]
    ELSE compare_outcome(cmp, traces,
           IF IsSome(cmp.computed)
           THEN ComputedTracesOf(Unwrap(resolved.result), 1, cmp.op, cmp.value, resolved.details)
           ELSE TracesOf(Unwrap(resolved.result), 1, cmp.op, cmp.value))

\* evaluate_compare: [matched, traces] with the traces it adds to the context
evaluate_compare(cmp, data, traces) ==
    compare_resolved(cmp, resolve_field_with_details(cmp, data), traces)

RECURSIVE evaluate_ctx(_, _, _)
RECURSIVE evaluate_all(_, _, _)
RECURSIVE evaluate_any(_, _, _)

\* and.iter().all(|e| evaluate(e, ctx)): stops at the first clause that fails
evaluate_all(args, data, traces) ==
    IF args = << >> THEN [ matched |-> TRUE, traces |-> traces ]
    ELSE LET r == evaluate_ctx(Head(args), data, traces)
         IN  IF r.matched THEN evaluate_all(Tail(args), data, r.traces) ELSE r

\* or.iter().any(|e| evaluate(e, ctx)): stops at the first clause that holds
evaluate_any(args, data, traces) ==
    IF args = << >> THEN [ matched |-> FALSE, traces |-> traces ]
    ELSE LET r == evaluate_ctx(Head(args), data, traces)
         IN  IF r.matched THEN r ELSE evaluate_any(Tail(args), data, r.traces)

\* extract_line_from_match_path: the line between the last brackets of a path
extract_line_from_match_path(path) ==
    IF Len(path) = 3 THEN Some(path[3]) ELSE None

\* format!("{:.4}", line): the line to four decimals (ten-thousandths)
line_match_key(line) == line * 100

\* The keys of the lines the traces traces[from..] were recorded at
lines_for_condition(traces, from) ==
    { line_match_key(Unwrap(extract_line_from_match_path(traces[i].path))) :
        i \in { j \in from..Len(traces) :
                  IsSome(extract_line_from_match_path(traces[j].path)) } }

\* The loop of evaluate_per_line_and over the remaining conditions, with the
\* line sets gathered so far, and the intersection test behind it
RECURSIVE per_line_conditions(_, _, _, _)
per_line_conditions(conditions, data, traces, condition_line_matches) ==
    IF conditions = << >>
    THEN [ matched |->
             \/ condition_line_matches = << >>
             \/ \E line \in condition_line_matches[1] :
                   \A i \in 1..Len(condition_line_matches) : line \in condition_line_matches[i],
           traces |-> traces ]
    ELSE LET r     == evaluate_ctx(Head(conditions), data, traces)
             lines == lines_for_condition(r.traces, Len(traces) + 1)
         IN  IF ~r.matched THEN [ matched |-> FALSE, traces |-> r.traces ]
             ELSE per_line_conditions(Tail(conditions), data, r.traces,
                                      IF lines # {}
                                      THEN Append(condition_line_matches, lines)
                                      ELSE condition_line_matches)

evaluate_per_line_and(conditions, data, traces) ==
    per_line_conditions(conditions, data, traces, << >>)

evaluate_ctx(expr, data, traces) ==
    CASE expr.kind = "and" -> evaluate_all(expr.args, data, traces)
      [] expr.kind = "or"  -> evaluate_any(expr.args, data, traces)
      [] expr.kind = "per_line_and" -> evaluate_per_line_and(expr.args, data, traces)
      [] expr.kind = "not" -> LET r == evaluate_ctx(expr.args[1], data, traces)
                              IN  [ matched |-> ~r.matched, traces |-> r.traces ]
      [] OTHER             -> evaluate_compare(expr, data, traces)

\* evaluate(expr, &mut FilterContext::new(data)) and ctx.get_traces()
evaluate(expr, data) == evaluate_ctx(expr, data, << >>)

\* ---- vector aggregates (evaluated on their own: the variable they bind is
\* the result kept here, not a binding later expressions read) ----

VectorExpr(function, sources, as_var) ==
    [ kind |-> "vector", function |-> function, sources |-> sources, as_var |-> as_var ]

PerLineOps == { "avg_per_line", "max_per_line", "min_per_line", "sum_per_line", "count_per_line" }

\* resolve_field on a simple path
resolve_field(source, data) == resolve_json_path(data, source.bookmaker, source.field)

\* sources.iter().filter_map(|s| resolve_field(s, ctx)): the sources that
\* resolve (an Option is the sequence of what it holds)
RECURSIVE resolved_sources(_, _)
resolved_sources(sources, data) ==
    IF sources = << >> THEN << >>
    ELSE resolve_field(Head(sources), data) \o resolved_sources(Tail(sources), data)

\* The (value, path) pairs of a ResolvedValue whose value is above 1000
RECURSIVE valid_pairs(_, _)
valid_pairs(rv, i) ==
    IF i > Len(rv.values) THEN << >>
    ELSE (IF rv.values[i] > 1000
          THEN << [ value |-> rv.values[i], path |-> rv.paths[i] ] >>
          ELSE << >>) \o valid_pairs(rv, i + 1)

RECURSIVE all_valid_pairs(_)
all_valid_pairs(resolved) ==
    IF resolved = << >> THEN << >>
    ELSE valid_pairs(Head(resolved), 1) \o all_valid_pairs(Tail(resolved))

\* extract_line_from_path, and the key (line * 1000.0).round() of a line in hundredths
extract_line_from_path(path) == IF Len(path) = 3 THEN Some(path[3]) ELSE None
line_key_of(line) == line * 10
line_of_key(line_key) == line_key \div 10

\* extract_field_base: the last segment of a path before its bracket
extract_field_base(path) == path[2]

\* by_line[line_key]: the pairs gathered at a line, in the order they were pushed
pairs_at(pairs, line_key) ==
    SelectSeq(pairs, LAMBDA pr : IsSome(extract_line_from_path(pr.path))
                                 /\ line_key_of(Unwrap(extract_line_from_path(pr.path))) = line_key)

line_keys(pairs) ==
    { line_key_of(Unwrap(extract_line_from_path(pairs[i].path))) :
        i \in { j \in 1..Len(pairs) : IsSome(extract_line_from_path(pairs[j].path)) } }

RECURSIVE ascending(_)
ascending(S) ==
    IF S = {} THEN << >>
    ELSE LET m == CHOOSE x \in S : \A y \in S : x <= y
         IN  << m >> \o ascending(S \ { m })

MaxOf(values) == CHOOSE v \in { values[i] : i \in 1..Len(values) } :
                   \A i \in 1..Len(values) : v >= values[i]
MinOf(values) == CHOOSE v \in { values[i] : i \in 1..Len(values) } :
                   \A i \in 1..Len(values) : v <= values[i]

\* The aggregate of the values gathered at a line, or of all values
aggregate(function, values) ==
    CASE function \in { "avg", "avg_per_line" }     -> Frac(SumSeq(values), Len(values))
      [] function \in { "max", "max_per_line" }     -> Frac(MaxOf(values), 1)
      [] function \in { "min", "min_per_line" }     -> Frac(MinOf(values), 1)
      [] function \in { "sum", "sum_per_line" }     -> Frac(SumSeq(values), 1)
      [] function \in { "count", "count_per_line" } -> Frac(Len(values), 1)

\* The retention test of evaluate_vector_per_line on the pairs gathered at a line
retained(vals, source_count) == Len(vals) >= source_count

values_of(pairs) == [ i \in 1..Len(pairs) |-> pairs[i].value ]

\* The ResolvedValue bound to as_var: one aggregate per retained line, in
\* ascending order.  A path without a bookmaker prefix has an empty first component.
per_line_bound(op, pairs, sorted) ==
    Some([ values |-> [ k \in 1..Len(sorted) |->
                          aggregate(op, values_of(pairs_at(pairs, sorted[k]))) ],
           paths  |-> [ k \in 1..Len(sorted) |->
                          LinePath("", extract_field_base(pairs_at(pairs, sorted[k])[1].path),
                                   line_of_key(sorted[k])) ] ])

per_line_of_lines(op, as_var, pairs, intersection) ==
    IF intersection = {} THEN [ matched |-> FALSE, var |-> None ]
    ELSE [ matched |-> TRUE,
           var |-> IF IsSome(as_var) THEN per_line_bound(op, pairs, ascending(intersection))
                   ELSE None ]

per_line_of_pairs(op, as_var, pairs, source_count) ==
    per_line_of_lines(op, as_var, pairs,
                      { k \in line_keys(pairs) : retained(pairs_at(pairs, k), source_count) })

per_line_of_resolved(op, as_var, resolved) ==
    IF resolved = << >> THEN [ matched |-> FALSE, var |-> None ]
    ELSE per_line_of_pairs(op, as_var, all_valid_pairs(resolved), Len(resolved))

\* evaluate_vector_per_line: [matched, var], var the ResolvedValue bound to as_var
evaluate_vector_per_line(op, sources, as_var, data) ==
    per_line_of_resolved(op, as_var, resolved_sources(sources, data))

\* The aggregate of every value above 1000
vector_of_pairs(vec, pairs) ==
    IF pairs = << >> THEN [ matched |-> FALSE, var |-> None ]
    ELSE [ matched |-> TRUE,
           var |-> IF IsSome(vec.as_var)
                   THEN Some([ values |-> << aggregate(vec.function, values_of(pairs)) >>,
                               paths  |-> << << Unwrap(vec.as_var) >> >> ])
                   ELSE None ]

\* evaluate_vector: the per-line functions, or the aggregate of every value above 1000
evaluate_vector(vec, data) ==
    IF vec.function \in PerLineOps
    THEN evaluate_vector_per_line(vec.function, vec.sources, vec.as_var, data)
    ELSE vector_of_pairs(vec, all_valid_pairs(resolved_sources(vec.sources, data)))

-----------------------------------------------------------------------------
(* odds-processor: types/mod.rs messages (the wall-clock fields start and   *)
(* end are left out; odds_removed's timestamp, a wall-clock time, is 0).    *)

WsMessage(msg_type, fixture_id, timestamp, bookmakers, filter_matches) ==
    [ msg_type |-> msg_type, fixture_id |-> fixture_id, timestamp |-> timestamp,
      bookmakers |-> bookmakers, filter_matches |-> filter_matches ]

to_ws_message(fixture, msg_type) ==
    WsMessage(msg_type, fixture.fixture_id, fixture.last_update, fixture.bookmakers, None)

to_ws_message_with_traces(fixture, msg_type, traces) ==
    WsMessage(msg_type, fixture.fixture_id, fixture.last_update, fixture.bookmakers,
              IF traces = << >> THEN None ELSE Some(traces))

to_odds_removed_message(fixture) ==
    WsMessage("odds_removed", fixture.fixture_id, 0, EmptyMap, None)

ClientState_new == [ filter |-> None, matching_fixtures |-> {} ]

-----------------------------------------------------------------------------
(* odds-processor: network/stream.rs *)

\* send_filtered_snapshot over the cached fixtures in iteration order `order`:
\* the client state and the messages written to the socket
RECURSIVE send_filtered_snapshot(_, _, _, _)
send_filtered_snapshot(c, order, cs, sent) ==
    IF order = << >> THEN [ client_state |-> cs, sent |-> sent ]
    ELSE
      LET fixture == c.fixtures[Head(order)]
          base_msg == to_ws_message(fixture, "odds_snapshot")
          res == IF IsSome(cs.filter)
                 THEN evaluate(Unwrap(cs.filter), base_msg)
                 ELSE [ matched |-> TRUE, traces |-> << >> ]
          msg == IF res.traces # << >>
                 THEN to_ws_message_with_traces(fixture, "odds_snapshot", res.traces)
                 ELSE base_msg
      IN  IF res.matched
          THEN send_filtered_snapshot(c, Tail(order),
                   [ cs EXCEPT !.matching_fixtures = @ \cup { fixture.fixture_id } ],
                   Append(sent, msg))
          ELSE send_filtered_snapshot(c, Tail(order), cs, sent)

\* Faulty variant: the tracking set survives the request
keep_matching(matching_fixtures) == matching_fixtures

\* "Clear tracking when subscribing / updating filter / removing filter"
clear_matching(matching_fixtures) == {}

\* The filter a ClientRequest installs
requested_filter(req) ==
    CASE req.type = "subscribe"     -> req.filter
      [] req.type = "update_filter" -> req.filter
      [] OTHER                      -> None

\* The request arm of handle_socket, under the client-state write lock
handle_request(c, order, cs, req) ==
    send_filtered_snapshot(c, order,
        [ filter |-> requested_filter(req),
          matching_fixtures |-> clear_matching(cs.matching_fixtures) ],
        << >>)

\* The filter block of the send task: (should_send, traces, send_removal) and the
\* matching set after it
filter_decision(cs, msg) ==
    IF IsSome(cs.filter)
    THEN LET res == evaluate(Unwrap(cs.filter), msg)
             matches_now == res.matched
             was_matching == msg.fixture_id \in cs.matching_fixtures
         IN  CASE matches_now /\ ~was_matching ->
                    [ should_send |-> TRUE, traces |-> res.traces, send_removal |-> FALSE,
                      matching_fixtures |-> cs.matching_fixtures \cup { msg.fixture_id },
                      matches_now |-> matches_now, was_matching |-> was_matching ]
               [] matches_now /\ was_matching ->
                    [ should_send |-> TRUE, traces |-> res.traces, send_removal |-> FALSE,
                      matching_fixtures |-> cs.matching_fixtures,
                      matches_now |-> matches_now, was_matching |-> was_matching ]
               [] ~matches_now /\ was_matching ->
                    [ should_send |-> FALSE, traces |-> << >>, send_removal |-> TRUE,
                      matching_fixtures |-> cs.matching_fixtures \ { msg.fixture_id },
                      matches_now |-> matches_now, was_matching |-> was_matching ]
               [] OTHER ->
                    [ should_send |-> FALSE, traces |-> << >>, send_removal |-> FALSE,
                      matching_fixtures |-> cs.matching_fixtures,
                      matches_now |-> matches_now, was_matching |-> was_matching ]
    ELSE [ should_send |-> TRUE, traces |-> << >>, send_removal |-> FALSE,
           matching_fixtures |-> cs.matching_fixtures,
           matches_now |-> FALSE, was_matching |-> FALSE ]

\* "Send removal message if needed": what the removal block writes
removal_messages(c, fixture_id) ==
    IF fixture_id \in DOMAIN c.fixtures
    THEN << to_odds_removed_message(c.fixtures[fixture_id]) >>
    ELSE << >>

-----------------------------------------------------------------------------
(* SpecWS: the update-apply task of main(), the broadcast channel and one   *)
(* connected WebSocket session (send task + request handler).  The session  *)
(* connected after hydration had cached fixture 1, so its connect-time      *)
(* snapshot recorded that fixture.  Update timestamps increase.  Socket     *)
(* writes succeed.                                                          *)

MaxWsUpdates == 2
MaxRequests == 2

WsFixtures == { 1, 2 }
WsMaxFixtures == { 1, 2 }

\* x12 columns whose home odds are above / below the filter threshold
X12High == << 22, 30, 40 >>
X12Low  == << 20, 30, 40 >>

FilterHigh == CompareExpr("A", "x12_h", "gte", Some(21))
FilterLow  == Combinator("not", << FilterHigh >>)

WsUpdates(timestamp) ==
    { [ OddsUpdate_default(f, "A", timestamp) EXCEPT !.x12 = Some(x) ] :
        f \in WsFixtures, x \in { X12High, X12Low } }

ClientRequests ==
    { [ type |-> "subscribe", filter |-> None ],
      [ type |-> "subscribe", filter |-> Some(FilterHigh) ],
      [ type |-> "update_filter", filter |-> Some(FilterHigh) ],
      [ type |-> "update_filter", filter |-> Some(FilterLow) ],
      [ type |-> "remove_filter", filter |-> None ] }

\* The orders in which a HashMap with key set S may be iterated
IterationOrders(S) ==
    { order \in [1..Cardinality(S) -> S] :
        \A i, j \in 1..Cardinality(S) : i # j => order[i] # order[j] }

\* main(): the cache after hydration with one fixture
WsHydrated(max_fixtures) ==
    apply_update(Cache_new(max_fixtures),
                 [ OddsUpdate_default(1, "A", 1) EXCEPT !.x12 = Some(X12High) ])

\* handle_socket: the state after send_filtered_snapshot(.., None) on connect
InitWS ==
    /\ \E m \in WsMaxFixtures :
          /\ InitCacheVars(WsHydrated(m))
          /\ InitSession(send_filtered_snapshot(WsHydrated(m), << 1 >>,
                                                ClientState_new, << >>).client_state)
    /\ InitHistVars /\ InitBookVars /\ InitIdleVars

\* main(): the apply task takes an update, applies it under the cache write lock and
\* builds the odds_update message from the fixture apply_update returns
ApplyTaskApply ==
    /\ pending_ws = None
    /\ nUpdates < MaxWsUpdates
    /\ \E u \in WsUpdates(nUpdates + 2) :
          /\ CacheApply(u)
          /\ pending_ws' = Some(WsMessage("odds_update", u.fixture_id, u.timestamp,
                                 cache'.fixtures[u.fixture_id].bookmakers, None))
    /\ socket' = << >>
    /\ lastStep' = "apply"
    /\ UNCHANGED << rx, client_state, send_task, handled, verdict, epoch, histVars, bookVars, idleVars >>

\* main(): process_ws_tx.send(ws_msg)
ApplyTaskBroadcast ==
    /\ IsSome(pending_ws)
    /\ rx' = Append(rx, Unwrap(pending_ws))
    /\ pending_ws' = None
    /\ socket' = << >>
    /\ lastStep' = "broadcast"
    /\ UNCHANGED << cacheVars, nUpdates, client_state, send_task, handled, verdict, epoch,
                    histVars, bookVars, idleVars >>

\* send task: rx.recv() and the filter block under the client-state write lock
SendTaskRecv ==
    /\ send_task.pc = "recv"
    /\ rx # << >>
    /\ LET msg == Head(rx)
           d == filter_decision(client_state, msg)
           next_pc == IF d.should_send THEN "send"
                      ELSE IF d.send_removal THEN "removal" ELSE "recv"
       IN  /\ rx' = Tail(rx)
           /\ client_state' = [ client_state EXCEPT !.matching_fixtures = d.matching_fixtures ]
           /\ send_task' = [ pc |-> next_pc, fixture_id |-> msg.fixture_id,
                             should_send |-> d.should_send, send_removal |-> d.send_removal,
                             msg |-> Some([ msg EXCEPT !.filter_matches =
                                              IF d.traces # << >> THEN Some(d.traces) ELSE @ ]) ]
           /\ handled' = [ fixture_id |-> msg.fixture_id,
                           filtered |-> IsSome(client_state.filter),
                           matches_now |-> d.matches_now, was_matching |-> d.was_matching,
                           set_before |-> client_state.matching_fixtures,
                           set_after |-> d.matching_fixtures,
                           epoch |-> epoch, wrote |-> << >>, done |-> next_pc = "recv" ]
           /\ verdict' = IF IsSome(client_state.filter)
                         THEN MapPut(verdict, msg.fixture_id, d.matches_now) ELSE verdict
    /\ socket' = << >>
    /\ lastStep' = "recv"
    /\ UNCHANGED << cacheVars, nUpdates, pending_ws, epoch, histVars, bookVars, idleVars >>

\* send task: "if should_send" -- the update is written to the socket
SendTaskSend ==
    /\ send_task.pc = "send"
    /\ socket' = << Unwrap(send_task.msg) >>
    /\ handled' = [ handled EXCEPT !.wrote = @ \o socket', !.done = ~send_task.send_removal ]
    /\ send_task' = IF send_task.send_removal
                    THEN [ send_task EXCEPT !.pc = "removal" ] ELSE SendTask_idle
    /\ lastStep' = "send"
    /\ UNCHANGED << cacheVars, nUpdates, pending_ws, rx, client_state, verdict, epoch,
                    histVars, bookVars, idleVars >>

\* send task: "if send_removal" -- the cache is read and odds_removed is written
SendTaskRemoval ==
    /\ send_task.pc = "removal"
    /\ socket' = removal_messages(cache, send_task.fixture_id)
    /\ handled' = [ handled EXCEPT !.wrote = @ \o socket', !.done = TRUE ]
    /\ send_task' = SendTask_idle
    /\ lastStep' = "removal"
    /\ UNCHANGED << cacheVars, nUpdates, pending_ws, rx, client_state, verdict, epoch,
                    histVars, bookVars, idleVars >>

\* request handler: one subscribe / update_filter / remove_filter, holding the
\* client-state write lock, the cache read lock and the sender lock to the end
HandleClientRequest ==
    /\ epoch < MaxRequests
    /\ \E req \in ClientRequests, order \in IterationOrders(DOMAIN cache.fixtures) :
          LET r == handle_request(cache, order, client_state, req)
          IN  /\ client_state' = r.client_state
              /\ socket' = r.sent
              /\ verdict' = IF IsSome(r.client_state.filter)
                            THEN [ f \in DOMAIN cache.fixtures |->
                                     f \in r.client_state.matching_fixtures ]
                            ELSE EmptyMap
    /\ epoch' = epoch + 1
    /\ lastStep' = "request"
    /\ UNCHANGED << cacheVars, nUpdates, pending_ws, rx, send_task, handled, histVars, bookVars, idleVars >>

NextWS ==
    \/ ApplyTaskApply
    \/ ApplyTaskBroadcast
    \/ SendTaskRecv
    \/ SendTaskSend
    \/ SendTaskRemoval
    \/ HandleClientRequest

SpecWS == InitWS /\ [][NextWS]_vars

OddsRemoved(fixture_id) == WsMessage("odds_removed", fixture_id, 0, EmptyMap, None)

\* The send task has finished handling a broadcast update under the filter in force
HandledUnderFilter == handled.done /\ handled.filtered /\ handled.epoch = epoch

\* C1: when an update for a matching fixture F makes the filter evaluate false, the
\* session sends exactly one odds_removed for F (empty bookmakers), and it sends
\* nothing for F on later updates that evaluate false, in every interleaving with
\* cache updates and evictions.
C1_RemovedExactlyOnce ==
    HandledUnderFilter /\ ~handled.matches_now =>
        /\ handled.was_matching => handled.wrote = << OddsRemoved(handled.fixture_id) >>
        /\ ~handled.was_matching => handled.wrote = << >>
        /\ handled.fixture_id \notin client_state.matching_fixtures

IsOddsUpdateFor(wrote, fixture_id) ==
    /\ Len(wrote) = 1
    /\ wrote[1].msg_type = "odds_update"
    /\ wrote[1].fixture_id = fixture_id

\* C2: under a filter every broadcast update for F is handled by (matches_now,
\* was_matching): (true,false) forwards odds_update and adds F to the set; (true,true)
\* forwards odds_update, set unchanged; (false,true) forwards nothing, emits
\* odds_removed and removes F; (false,false) sends nothing, set unchanged.  Hence F is
\* in the set iff the filter matched F's latest update.
C2_DecisionTable ==
    /\ handled.done /\ handled.filtered =>
        LET F == handled.fixture_id IN
        CASE handled.matches_now /\ ~handled.was_matching ->
               IsOddsUpdateFor(handled.wrote, F) /\ handled.set_after = handled.set_before \cup {F}
          [] handled.matches_now /\ handled.was_matching ->
               IsOddsUpdateFor(handled.wrote, F) /\ handled.set_after = handled.set_before
          [] ~handled.matches_now /\ handled.was_matching ->
               handled.wrote = << OddsRemoved(F) >> /\ handled.set_after = handled.set_before \ {F}
          [] OTHER ->
               handled.wrote = << >> /\ handled.set_after = handled.set_before
    /\ IsSome(client_state.filter) =>
        client_state.matching_fixtures = { f \in DOMAIN verdict : verdict[f] }

\* The cached fixtures whose snapshot message satisfies the session's filter
CachedMatching ==
    { f \in DOMAIN cache.fixtures :
        IsSome(client_state.filter) =>
            evaluate(Unwrap(client_state.filter),
                     to_ws_message(cache.fixtures[f], "odds_snapshot")).matched }

-----------------------------------------------------------------------------
(* odds-engine: shared/types.rs, monaco/order_book.rs                       *)
(* Prices and liquidities are integers (ticks); JSON numbers are never NaN. *)

PriceLevel(price, liquidity) == [ price |-> price, liquidity |-> liquidity ]

OrderBook_new == EmptyMap

\* format!("{}-{}", fixture_id, market_type)
order_book_key(fixture_id, market_type) == << fixture_id, market_type >>

\* price.to_string() and price_str.parse()
price_to_string(price) == << "f64", price >>
parse_price(price_str) == price_str[2]

\* levels.sort_by(|a, b| b.price.partial_cmp(&a.price)): a stable descending sort
RECURSIVE sort_insert(_, _)
sort_insert(sorted, level) ==
    IF sorted = << >> THEN << level >>
    ELSE IF Head(sorted).price >= level.price
         THEN << Head(sorted) >> \o sort_insert(Tail(sorted), level)
         ELSE << level >> \o sorted

RECURSIVE sort_descending(_)
sort_descending(levels) ==
    IF levels = << >> THEN << >>
    ELSE sort_insert(sort_descending(SubSeq(levels, 1, Len(levels) - 1)), levels[Len(levels)])

\* price_levels.iter().position(|level| level.price == price): 0 when there is none
position(price_levels, price) ==
    IF \E i \in 1..Len(price_levels) : price_levels[i].price = price
    THEN CHOOSE i \in 1..Len(price_levels) :
            /\ price_levels[i].price = price
            /\ \A j \in 1..(i - 1) : price_levels[j].price # price
    ELSE 0

\* Vec::remove(index)
remove_at(price_levels, index) ==
    SubSeq(price_levels, 1, index - 1) \o SubSeq(price_levels, index + 1, Len(price_levels))

\* Faulty variant: liquidity 0 drops the top of the ladder, not the level found
update_level_drop_top(price_levels, price, liquidity) ==
    LET existing_index == position(price_levels, price)
    IN  IF existing_index # 0
        THEN IF liquidity = 0
             THEN remove_at(price_levels, 1)
             ELSE [ price_levels EXCEPT ![existing_index].liquidity = liquidity ]
        ELSE IF liquidity > 0
             THEN Append(price_levels, PriceLevel(price, liquidity))
             ELSE price_levels

\* update(): what one Against entry does to the ladder of its outcome
update_level(price_levels, price, liquidity) ==
    LET existing_index == position(price_levels, price)
    IN  IF existing_index # 0
        THEN IF liquidity = 0
             THEN remove_at(price_levels, existing_index)
             ELSE [ price_levels EXCEPT ![existing_index].liquidity = liquidity ]
        ELSE IF liquidity > 0
             THEN Append(price_levels, PriceLevel(price, liquidity))
             ELSE price_levels

\* price_update["liquidity"].as_f64().unwrap_or(0.0)
liquidity_of(price_update) ==
    IF IsSome(price_update.liquidity) THEN Unwrap(price_update.liquidity) ELSE 0

\* update(): the loop over message["prices"]; the book and the affected outcomes
RECURSIVE process_price_updates(_, _, _)
process_price_updates(order_book, prices, affected_outcomes) ==
    IF prices = << >>
    THEN [ order_book |-> order_book, affected_outcomes |-> affected_outcomes ]
    ELSE
      LET price_update == Head(prices) IN
      IF \/ price_update.side # Some("Against")
         \/ ~IsSome(price_update.outcomeId)
         \/ ~IsSome(price_update.price)
      THEN process_price_updates(order_book, Tail(prices), affected_outcomes)
      ELSE
        LET outcome_id == Unwrap(price_update.outcomeId)
            price_levels == GetOr(order_book, outcome_id, << >>)
            updated == update_level(price_levels, Unwrap(price_update.price),
                                    liquidity_of(price_update))
        IN  process_price_updates(MapPut(order_book, outcome_id, updated), Tail(prices),
                                  affected_outcomes \cup { outcome_id })

\* update(): the book created when the key is missing
initial_order_book(message, outcome_mappings) ==
    IF IsSome(outcome_mappings)
    THEN [ outcome_id \in Unwrap(outcome_mappings) |-> << >> ]
    ELSE IF IsSome(message)
         THEN [ outcome_id \in { Unwrap(Unwrap(message)[i].outcomeId) :
                                   i \in { j \in 1..Len(Unwrap(message)) :
                                            IsSome(Unwrap(message)[j].outcomeId) } } |-> << >> ]
         ELSE OrderBook_new

\* MonacoOrderBook::update: the order books after one price-update message
\* (message is message["prices"], None when it is not an array)
update(books, fixture_id, message, market_type, outcome_mappings) ==
    LET key == order_book_key(fixture_id, market_type)
        order_book == IF key \in DOMAIN books THEN books[key]
                      ELSE initial_order_book(message, outcome_mappings)
        processed == IF IsSome(message)
                     THEN process_price_updates(order_book, Unwrap(message), {})
                     ELSE [ order_book |-> order_book, affected_outcomes |-> {} ]
        sorted == [ outcome_id \in DOMAIN processed.order_book |->
                      IF outcome_id \in processed.affected_outcomes
                      THEN sort_descending(processed.order_book[outcome_id])
                      ELSE processed.order_book[outcome_id] ]
    IN  MapPut(books, key, sorted)

\* initialize(): liquidity summed per outcome and price key over the Against prices
RECURSIVE aggregate_prices(_, _)
aggregate_prices(prices, prices_by_outcome) ==
    IF prices = << >> THEN prices_by_outcome
    ELSE
      LET price == Head(prices) IN
      IF price.side # "Against" THEN aggregate_prices(Tail(prices), prices_by_outcome)
      ELSE
        LET outcome_prices == GetOr(prices_by_outcome, price.outcome_id, EmptyMap)
            price_key == price_to_string(price.price)
            summed == GetOr(outcome_prices, price_key, 0) + price.liquidity
        IN  aggregate_prices(Tail(prices),
                MapPut(prices_by_outcome, price.outcome_id,
                       MapPut(outcome_prices, price_key, summed)))

\* The entries of a price map as a sequence, in some iteration order
RECURSIVE map_into_levels(_)
map_into_levels(price_map) ==
    IF DOMAIN price_map = {} THEN << >>
    ELSE LET price_str == CHOOSE k \in DOMAIN price_map : TRUE
         IN  << PriceLevel(parse_price(price_str), price_map[price_str]) >>
             \o map_into_levels(MapDel(price_map, price_str))

\* initialize(): the sorted levels of one outcome, liquidity > 0 only
sorted_levels(price_map) ==
    sort_descending(SelectSeq(map_into_levels(price_map), LAMBDA level : level.liquidity > 0))

\* MonacoOrderBook::initialize: the order books after the loop over `markets`
RECURSIVE initialize(_, _, _)
initialize(books, fixture_id, markets) ==
    IF markets = << >> THEN books
    ELSE
      LET market == Head(markets) IN
      IF ~IsSome(market.market_type) \/ ~IsSome(market.prices)
      THEN initialize(books, fixture_id, Tail(markets))
      ELSE
        LET key == order_book_key(fixture_id, Unwrap(market.market_type))
            order_book == GetOr(books, key, OrderBook_new)
            prices_by_outcome == aggregate_prices(Unwrap(market.prices), EmptyMap)
            inserted == [ outcome_id \in DOMAIN order_book \cup DOMAIN prices_by_outcome |->
                            IF outcome_id \in DOMAIN prices_by_outcome
                            THEN sorted_levels(prices_by_outcome[outcome_id])
                            ELSE order_book[outcome_id] ]
        IN  initialize(MapPut(books, key, inserted), fixture_id, Tail(markets))

\* A remove that leaves the books as they are
remove_keeping(books, fixture_id, market_type) == books

\* MonacoOrderBook::remove
remove(books, fixture_id, market_type) ==
    MapDel(books, order_book_key(fixture_id, market_type))

-----------------------------------------------------------------------------
(* SpecBook: initialize, update and remove on the Monaco order book of one  *)
(* fixture and market, in any order, with well-formed and malformed price   *)
(* entries and negative, zero and positive liquidities.                     *)

BookFixtures == { 1 }
BookMarketType == "x12"
BookOutcomes == { "O1", "O2" }
BookPrices == { 1, 2 }
BookLiquidities == { -1, 0, 1 }

\* Against-side entries of a price-update message
AgainstUpdates ==
    { [ side |-> Some("Against"), outcomeId |-> Some(o), price |-> Some(p), liquidity |-> Some(l) ] :
        o \in BookOutcomes, p \in BookPrices, l \in BookLiquidities }
    \cup { [ side |-> Some("Against"), outcomeId |-> Some("O1"), price |-> Some(1),
             liquidity |-> None ] }

\* Against-side entries that add liquidity
AddingUpdates == { e \in AgainstUpdates : e.liquidity = Some(1) }

\* Entries the update loop skips: another side, no outcomeId, no price
SkippedUpdates ==
    { [ side |-> Some("Back"), outcomeId |-> Some("O1"), price |-> Some(1), liquidity |-> Some(1) ],
      [ side |-> Some("Against"), outcomeId |-> None, price |-> Some(1), liquidity |-> Some(1) ],
      [ side |-> Some("Against"), outcomeId |-> Some("O1"), price |-> None, liquidity |-> Some(1) ] }

\* message["prices"]: not an array, an array of one entry, or an array of two
\* entries the second of which adds liquidity
UpdateMessages ==
    { None }
    \cup { Some(<< e >>) : e \in AgainstUpdates \cup SkippedUpdates }
    \cup { Some(<< e1, e2 >>) : e1 \in AgainstUpdates, e2 \in AddingUpdates }

OutcomeMappings == { None, Some(BookOutcomes) }

MonacoPrices ==
    { [ side |-> "Against", outcome_id |-> o, price |-> p, liquidity |-> l ] :
        o \in BookOutcomes, p \in BookPrices, l \in BookLiquidities }
    \cup { [ side |-> "Back", outcome_id |-> "O1", price |-> 1, liquidity |-> 1 ] }

\* Market lists handed to initialize: one market, possibly unmapped or without
\* prices, with one price or with two prices the second of which is an offer
MarketLists ==
    { << [ market_type |-> None, prices |-> Some(<< >>) ] >>,
      << [ market_type |-> Some(BookMarketType), prices |-> None ] >> }
    \cup { << [ market_type |-> Some(BookMarketType), prices |-> Some(<< p1 >>) ] >> :
             p1 \in MonacoPrices }
    \cup { << [ market_type |-> Some(BookMarketType), prices |-> Some(<< p1, p2 >>) ] >> :
             p1 \in MonacoPrices,
             p2 \in { q \in MonacoPrices : q.side = "Against" /\ q.liquidity = 1 } }

InitBook ==
    /\ InitCacheVars(Cache_new(1))
    /\ InitHistVars /\ InitWsVars /\ InitBookVars /\ InitIdleVars

NonBookVars == << cacheVars, nUpdates, histVars, wsVars, idleVars >>

\* market_init.rs: the order book is seeded from the fetched markets
BookInitialize ==
    /\ \E fixture_id \in BookFixtures, markets \in MarketLists :
          /\ order_books' = initialize(order_books, fixture_id, markets)
          /\ lastBookOp' = [ op |-> "initialize", key |-> order_book_key(fixture_id, BookMarketType),
                             message |-> None, before |-> order_books ]
    /\ UNCHANGED NonBookVars

\* handlers.rs handle_price_update: one MarketPriceUpdate message is applied
BookUpdate ==
    /\ \E fixture_id \in BookFixtures, message \in UpdateMessages,
          outcome_mappings \in OutcomeMappings :
          /\ order_books' = update(order_books, fixture_id, message, BookMarketType,
                                   outcome_mappings)
          /\ lastBookOp' = [ op |-> "update", key |-> order_book_key(fixture_id, BookMarketType),
                             message |-> message, before |-> order_books ]
    /\ UNCHANGED NonBookVars

\* handlers.rs handle_market_status_update: a closed market's book is dropped
BookRemove ==
    /\ \E fixture_id \in BookFixtures :
          /\ order_books' = remove(order_books, fixture_id, BookMarketType)
          /\ lastBookOp' = [ op |-> "remove", key |-> order_book_key(fixture_id, BookMarketType),
                             message |-> None, before |-> order_books ]
    /\ UNCHANGED NonBookVars

NextBook ==
    \/ BookInitialize
    \/ BookUpdate
    \/ BookRemove

SpecBook == InitBook /\ [][NextBook]_vars

\* The ladder of an outcome in the book stored under `key`; empty when there is none
LadderOf(books, key, outcome_id) ==
    GetOr(GetOr(books, key, OrderBook_new), outcome_id, << >>)

StrictlyDescending(levels) ==
    \A i \in 1..(Len(levels) - 1) : levels[i].price > levels[i + 1].price

\* C9: after any sequence of initialize, update and remove operations, with
\* arbitrary update payloads, every outcome's ladder is strictly price-descending
\* (hence has pairwise distinct prices) and every level has liquidity > 0.
C9_LadderOrdering ==
    \A key \in DOMAIN order_books : \A outcome_id \in DOMAIN order_books[key] :
        LET levels == order_books[key][outcome_id] IN
        /\ StrictlyDescending(levels)
        /\ \A i, j \in 1..Len(levels) : i # j => levels[i].price # levels[j].price
        /\ \A i \in 1..Len(levels) : levels[i].liquidity > 0

\* The latest operation applied a message of exactly one Against entry with liquidity 0
ZeroLiquidityUpdate ==
    /\ lastBookOp.op = "update"
    /\ IsSome(lastBookOp.message)
    /\ Len(Unwrap(lastBookOp.message)) = 1
    /\ Unwrap(lastBookOp.message)[1] \in AgainstUpdates
    /\ liquidity_of(Unwrap(lastBookOp.message)[1]) = 0

\* C10: an Against-side update with liquidity 0 at a price that exists in an
\* outcome's ladder removes exactly that level: the other levels of the outcome and
\* the ladders of all other outcomes are unchanged; at a price that is not in the
\* ladder it changes nothing.  (An outcome without a ladder has the empty ladder.)
C10_ZeroLiquidityRemovesLevel ==
    ZeroLiquidityUpdate =>
        LET price_update == Unwrap(lastBookOp.message)[1]
            before == GetOr(lastBookOp.before, lastBookOp.key, OrderBook_new)
            after == order_books[lastBookOp.key]
        IN  /\ DOMAIN before \subseteq DOMAIN after
            /\ \A outcome_id \in DOMAIN after :
                 GetOr(after, outcome_id, << >>) =
                    IF outcome_id = Unwrap(price_update.outcomeId)
                    THEN SelectSeq(GetOr(before, outcome_id, << >>),
                                   LAMBDA level : level.price # Unwrap(price_update.price))
                    ELSE GetOr(before, outcome_id, << >>)

\* C10 witness: the level removed was the lower of two levels of its outcome while
\* the other outcome had a ladder too
C10_Witness ==
    /\ ZeroLiquidityUpdate
    /\ LET price_update == Unwrap(lastBookOp.message)[1]
           outcome_id == Unwrap(price_update.outcomeId)
       IN  /\ Len(LadderOf(lastBookOp.before, lastBookOp.key, outcome_id)) = 2
           /\ LadderOf(lastBookOp.before, lastBookOp.key, outcome_id)[2].price
                 = Unwrap(price_update.price)
           /\ Len(LadderOf(order_books, lastBookOp.key, outcome_id)) = 1
           /\ \E other \in BookOutcomes \ { outcome_id } :
                 LadderOf(order_books, lastBookOp.key, other) # << >>

-----------------------------------------------------------------------------
(* odds-engine: monaco/handlers.rs, database/mod.rs, processor_client.rs    *)
(* Prices are in hundredths (181 is 1.81), liquidities and line values are  *)
(* integers (line -5 is -0.5); only x12 and ah markets are modelled, the ou *)
(* branch being the ah branch with other key names.                         *)

\* monaco/types.rs MarketMapping
MarketMapping(market_type, line_value, fixture_id, outcome_mappings) ==
    [ market_type |-> market_type, line_value |-> line_value, fixture_id |-> fixture_id,
      outcome_mappings |-> outcome_mappings ]

\* format!("{}-{}", event_id, market_id)
mapping_key(event_id, market_id) == << event_id, "-", market_id >>

\* The prices p of 1.01..10.00 (in hundredths) at which the f64 value of
\* ((p - 1.0) * 0.99 + 1.0) * 1000.0 lies just below the exact integer result
F64BelowExact == { 330, 400, 410, 430, 510, 560, 610, 700, 920 }

\* transform_price: (((price - 1.0) * 0.99 + 1.0) * 1000.0).floor() as i32
\* (database/mod.rs; build_odds_update calls the same transform at 3 decimals)
transform_price(price) ==
    (((price - 100) * 99 + 10000) \div 10) - (IF price \in F64BelowExact THEN 1 ELSE 0)

\* The index a fixture's mappings give an outcome: the first mapping (of the
\* market type, when one is given) whose outcome_mappings contain the outcome
mapping_of_outcome(market_mappings, outcome_id, market_type) ==
    LET holding == { k \in DOMAIN market_mappings :
                       /\ market_type = None \/ market_mappings[k].market_type = Unwrap(market_type)
                       /\ IsSome(market_mappings[k].outcome_mappings)
                       /\ outcome_id \in DOMAIN Unwrap(market_mappings[k].outcome_mappings) }
    IN  IF holding = {} THEN None ELSE Some(market_mappings[CHOOSE k \in holding : TRUE])

\* The best level of the outcome a loop over the order book leaves in a slot:
\* None when no outcome of `candidates` has a non-empty ladder
best_level_of(order_book, candidates) ==
    LET filled == { o \in candidates : o \in DOMAIN order_book /\ order_book[o] # << >> }
    IN  IF filled = {} THEN None ELSE Some(order_book[CHOOSE o \in filled : TRUE][1])

\* update_database_with_best_prices, "x12" branch: x12_prices and x12_stakes
x12_best_prices(order_book, market_mappings) ==
    LET index_of(o) == LET m == mapping_of_outcome(market_mappings, o, None)
                       IN  IF IsSome(m) THEN Some(Unwrap(Unwrap(m).outcome_mappings)[o]) ELSE None
        best(idx) == best_level_of(order_book, { o \in DOMAIN order_book : index_of(o) = Some(idx) })
    IN  [ x12 |-> [ i \in 1..3 |-> IF IsSome(best(i - 1))
                                   THEN transform_price(Unwrap(best(i - 1)).price) ELSE 0 ],
          max_stake_x12 |-> [ i \in 1..3 |-> IF IsSome(best(i - 1))
                                             THEN Unwrap(best(i - 1)).liquidity ELSE 0 ] ]

\* line_values.iter().position(|&v| v == line_val), 1-based, 0 when absent
line_position(line_values, line_val) ==
    LET at == { k \in 1..Len(line_values) : line_values[k] = line_val }
    IN  IF at = {} THEN 0 ELSE CHOOSE k \in at : \A j \in at : k <= j

\* update_database_with_best_prices, "ah" branch: the vectors over line_values
line_best_prices(order_book, market_mappings, market_type, line_values) ==
    LET mapping(o) == mapping_of_outcome(market_mappings, o, Some(market_type))
        lands(o, k, parity) ==
            /\ IsSome(mapping(o))
            /\ IsSome(Unwrap(mapping(o)).line_value)
            /\ line_position(line_values, Unwrap(Unwrap(mapping(o)).line_value)) = k
            /\ Unwrap(Unwrap(mapping(o)).outcome_mappings)[o] % 2 = parity
        best(k, parity) == best_level_of(order_book, { o \in DOMAIN order_book : lands(o, k, parity) })
        prices(parity) == [ k \in 1..Len(line_values) |->
                              IF IsSome(best(k, parity))
                              THEN transform_price(Unwrap(best(k, parity)).price) ELSE 0 ]
        stakes(parity) == [ k \in 1..Len(line_values) |->
                              IF IsSome(best(k, parity))
                              THEN Unwrap(best(k, parity)).liquidity ELSE 0 ]
    IN  [ home |-> prices(0), away |-> prices(1), home_stakes |-> stakes(0),
          away_stakes |-> stakes(1) ]

\* format!("{}_ts", market_type)
ts_key(market_type) == << market_type, "_ts" >>

\* An element of an odds_x12 / odds_ah JSON array
OddsEntry(t, x12, ah_h, ah_a) == [ t |-> t, x12 |-> x12, ah_h |-> ah_h, ah_a |-> ah_a ]

\* An element of the max_stakes JSON array
StakesEntry(t, max_stake_x12, max_stake_ah) ==
    [ t |-> t, max_stake_x12 |-> max_stake_x12, max_stake_ah |-> max_stake_ah ]

\* existing.sort_by_key(|entry| entry["t"]): a stable sort
RECURSIVE sort_by_t(_)
sort_by_t(entries) ==
    IF entries = << >> THEN << >>
    ELSE LET init == sort_by_t(SubSeq(entries, 1, Len(entries) - 1))
             last == entries[Len(entries)]
             before == SelectSeq(init, LAMBDA e : e.t <= last.t)
             after == SelectSeq(init, LAMBDA e : e.t > last.t)
         IN  before \o << last >> \o after

\* merge_odds_entry without the search for an entry of the same t
merge_always_pushing(existing, new_entry) == sort_by_t(Append(existing, new_entry))

\* merge_odds_entry
merge_odds_entry(existing, new_entry) ==
    LET same == { i \in 1..Len(existing) : existing[i].t = new_entry.t } IN
    IF same # {}
    THEN sort_by_t([ existing EXCEPT ![CHOOSE i \in same : \A j \in same : i <= j] = new_entry ])
    ELSE sort_by_t(Append(existing, new_entry))

\* The football_odds row of (fixture, "Monaco"): the columns the engine touches
MonacoRow(lines, odds_x12, odds_ah, max_stakes, latest_t) ==
    [ lines |-> lines, odds_x12 |-> odds_x12, odds_ah |-> odds_ah, max_stakes |-> max_stakes,
      latest_t |-> latest_t ]

\* update_database_with_best_prices: the row after the UPDATE (None: no row)
update_database_with_best_prices(existing, market_type, order_book, market_mappings, timestamp) ==
    IF ~IsSome(existing) THEN existing
    ELSE
      LET row == Unwrap(existing)
          line_values == IF row.lines = << >> THEN << >> ELSE row.lines[Len(row.lines)].ah
          x12 == x12_best_prices(order_book, market_mappings)
          ah == line_best_prices(order_book, market_mappings, market_type, line_values)
          new_odds_entry ==
              IF market_type = "x12" THEN OddsEntry(timestamp, Some(x12.x12), None, None)
              ELSE IF market_type = "ah" /\ line_values # << >>
                   THEN OddsEntry(timestamp, None, Some(ah.home), Some(ah.away))
                   ELSE OddsEntry(timestamp, None, None, None)
          max_stakes_entry ==
              IF market_type = "x12" THEN StakesEntry(timestamp, Some(x12.max_stake_x12), None)
              ELSE IF market_type = "ah" /\ line_values # << >>
                   THEN StakesEntry(timestamp, None,
                                    Some([ h |-> ah.home_stakes, a |-> ah.away_stakes ]))
                   ELSE StakesEntry(timestamp, None, None)
          updated_latest_t == MapPut(MapPut(row.latest_t, ts_key(market_type), timestamp),
                                     ts_key("stakes"), timestamp)
          max_stakes_data == IF row.max_stakes = << >> THEN << max_stakes_entry >>
                             ELSE [ row.max_stakes EXCEPT ![1] = max_stakes_entry ]
      IN  Some(IF market_type = "x12"
               THEN MonacoRow(row.lines, merge_odds_entry(row.odds_x12, new_odds_entry),
                              row.odds_ah, max_stakes_data, updated_latest_t)
               ELSE MonacoRow(row.lines, row.odds_x12,
                              merge_odds_entry(row.odds_ah, new_odds_entry),
                              max_stakes_data, updated_latest_t))

\* processor_client.rs OddsUpdate::default()
EngineOddsUpdate_default ==
    [ fixture_id |-> 0, bookie_id |-> 0, bookmaker |-> "", timestamp |-> 0, start |-> 0,
      decimals |-> 0, x12 |-> None, ah_lines |-> None, ah_h |-> None, ah_a |-> None,
      ids |-> None, max_stakes |-> None, latest_t |-> None ]

\* The outcomes of the order book the mapping knows
mapped_outcomes(market_mapping, order_book) ==
    IF IsSome(market_mapping.outcome_mappings)
    THEN DOMAIN order_book \cap DOMAIN Unwrap(market_mapping.outcome_mappings)
    ELSE {}

\* build_monaco_ids (the outcome ids, a JSON array in map order, as a set)
build_monaco_ids(timestamp, market_mapping, order_book) ==
    LET outcome_ids == mapped_outcomes(market_mapping, order_book) IN
    IF outcome_ids = {} THEN None
    ELSE Some([ t |-> timestamp, line_ids |-> << market_mapping.market_type, outcome_ids >> ])

\* The levels a loop over the order book pushes for one side, in map order
RECURSIVE pushed_stakes(_, _)
pushed_stakes(order_book, outcomes) ==
    IF outcomes = {} THEN << >>
    ELSE LET o == CHOOSE x \in outcomes : TRUE
         IN  << order_book[o][1].liquidity >> \o pushed_stakes(order_book, outcomes \ { o })

\* build_monaco_max_stakes
build_monaco_max_stakes(timestamp, market_mapping, order_book) ==
    LET known == mapped_outcomes(market_mapping, order_book)
        idx(o) == Unwrap(market_mapping.outcome_mappings)[o]
        best(i) == best_level_of(order_book, { o \in known : idx(o) = i })
        side(parity) == pushed_stakes(order_book,
                            { o \in known : order_book[o] # << >> /\ idx(o) % 2 = parity })
    IN  IF market_mapping.market_type = "x12"
        THEN Some(StakesEntry(timestamp,
                    Some([ i \in 1..3 |-> IF IsSome(best(i - 1))
                                          THEN Unwrap(best(i - 1)).liquidity ELSE 0 ]), None))
        ELSE IF market_mapping.market_type = "ah"
             THEN Some(StakesEntry(timestamp, None, Some([ h |-> side(0), a |-> side(1) ])))
             ELSE None

\* build_latest_t
build_latest_t(timestamp, market_type) ==
    IF market_type \notin { "x12", "ah" } THEN None
    ELSE Some([ k \in { ts_key(market_type), ts_key("ids"), ts_key("stakes") }
                      \cup (IF market_type = "ah" THEN { ts_key("lines") } ELSE {})
                  |-> timestamp ])

\* build_odds_update
build_odds_update(fixture_id, market_mapping, order_book, start_timestamp, timestamp) ==
    LET base == [ EngineOddsUpdate_default EXCEPT
                    !.fixture_id = fixture_id, !.bookie_id = 1, !.bookmaker = "Monaco",
                    !.timestamp = timestamp, !.start = start_timestamp, !.decimals = 3,
                    !.ids = build_monaco_ids(timestamp, market_mapping, order_book),
                    !.max_stakes = build_monaco_max_stakes(timestamp, market_mapping, order_book),
                    !.latest_t = build_latest_t(timestamp, market_mapping.market_type) ]
        known == mapped_outcomes(market_mapping, order_book)
        idx(o) == Unwrap(market_mapping.outcome_mappings)[o]
        best(i) == best_level_of(order_book, { o \in known : idx(o) = i })
        side(parity) == best_level_of(order_book, { o \in known : idx(o) % 2 = parity })
        odds(level) == IF IsSome(level) THEN transform_price(Unwrap(level).price) ELSE 0
    IN  IF market_mapping.market_type = "x12"
        THEN Some([ base EXCEPT !.x12 = Some([ i \in 1..3 |-> odds(best(i - 1)) ]) ])
        ELSE IF market_mapping.market_type = "ah"
             THEN IF IsSome(market_mapping.line_value)
                  THEN Some([ base EXCEPT !.ah_lines = Some(<< Unwrap(market_mapping.line_value) >>),
                                          !.ah_h = Some(<< odds(side(0)) >>),
                                          !.ah_a = Some(<< odds(side(1)) >>) ])
                  ELSE Some(base)
             ELSE None

\* get_fixture_mappings
get_fixture_mappings(market_mapping, fixture_id) ==
    [ k \in { key \in DOMAIN market_mapping : market_mapping[key].fixture_id = Some(fixture_id) }
        |-> market_mapping[k] ]

-----------------------------------------------------------------------------
(* SpecMonaco: the ingestion engine of one fixture. Every stream message    *)
(* spawns its handler; the spawned handlers run in any order, each as one   *)
(* step (order-book change, database write, send to the processor).         *)

MaxMonacoMsgs == 3

MonacoFixtures == { 1 }

X12Outcomes == [ o \in { "X1", "X2", "X3" } |-> CASE o = "X1" -> 0 [] o = "X2" -> 1 [] OTHER -> 2 ]
LowLineOutcomes == [ o \in { "A1", "A2" } |-> IF o = "A1" THEN 0 ELSE 1 ]
HighLineOutcomes == [ o \in { "B1", "B2" } |-> IF o = "B1" THEN 0 ELSE 1 ]

\* AppState.market_mapping as market_init leaves it: the match-odds market, two
\* handicap markets (lines -0.5 and +0.5) and a market without a fixture
market_mapping ==
    [ k \in { mapping_key("E1", m) : m \in { "MX", "MH1", "MH2", "MN" } } |->
        CASE k = mapping_key("E1", "MX")  -> MarketMapping("x12", None, Some(1), Some(X12Outcomes))
          [] k = mapping_key("E1", "MH1") -> MarketMapping("ah", Some(-5), Some(1), Some(LowLineOutcomes))
          [] k = mapping_key("E1", "MH2") -> MarketMapping("ah", Some(5), Some(1), Some(HighLineOutcomes))
          [] OTHER                        -> MarketMapping("x12", None, None, None) ]

\* AppState.processor_client: the engine is connected to the processor
processor_client == Some("odds-processor")

Against(outcome_id, price, liquidity) ==
    [ side |-> Some("Against"), outcomeId |-> Some(outcome_id), price |-> Some(price),
      liquidity |-> Some(liquidity) ]

StreamMessage(type, market_id, event_id, prices, status, in_play_status) ==
    [ type |-> type, marketId |-> market_id, eventId |-> event_id, prices |-> prices,
      status |-> status, inPlayStatus |-> in_play_status ]

PriceUpdate(market_id, prices) ==
    StreamMessage("MarketPriceUpdate", Some(market_id), Some("E1"), prices, None, None)

StatusUpdate(market_id, status, in_play_status) ==
    StreamMessage("MarketStatusUpdate", Some(market_id), Some("E1"), None, status, in_play_status)

PriceUpdateMessages ==
    { PriceUpdate("MX", Some(<< Against("X1", 181, 5) >>)),
      PriceUpdate("MX", Some(<< Against("X1", 180, 100), Against("X1", 195, 50),
                                Against("X2", 340, 80), Against("X3", 420, 60) >>)),
      PriceUpdate("MH1", Some(<< Against("A1", 195, 5) >>)),
      PriceUpdate("MH2", Some(<< Against("B2", 181, 5) >>)),
      PriceUpdate("MU", Some(<< Against("X1", 181, 5) >>)),
      PriceUpdate("MX", Some(<< >>)),
      StreamMessage("MarketPriceUpdate", None, Some("E1"), Some(<< Against("X1", 181, 5) >>),
                    None, None) }

StatusUpdateMessages ==
    { StatusUpdate("MX", Some("Closed"), None),
      StatusUpdate("MX", Some("Open"), None),
      StatusUpdate("MX", Some("Open"), Some("InPlay")),
      StatusUpdate("MH1", None, Some("PrePlay")),
      StatusUpdate("MN", Some("Closed"), None) }

MonacoMessages ==
    PriceUpdateMessages \cup StatusUpdateMessages
    \cup { StreamMessage("MarketUpdate", Some("MX"), Some("E1"), None, None, None) }

\* The row ensure_fixture_odds_record created: absent, without a lines entry,
\* or with the two handicap lines of the fixture
MonacoRows ==
    { None,
      Some(MonacoRow(<< >>, << >>, << >>, << >>, EmptyMap)),
      Some(MonacoRow(<< [ t |-> 0, ah |-> << -5, 5 >> ] >>, << >>, << >>, << >>, EmptyMap)) }

InitMonaco ==
    /\ InitCacheVars(Cache_new(1))
    /\ InitHistVars /\ InitWsVars /\ InitBookVars /\ InitPinnacleVars /\ InitCallVars
    /\ InitNetVars
    /\ \E row \in MonacoRows : InitMonacoVars(row)

NonMonacoVars == << cacheVars, histVars, wsVars, pinnacleVars, callVars, netVars >>

\* The keys of an outcome map, which is all MonacoOrderBook::update reads of it
outcome_keys(outcome_mappings) ==
    IF IsSome(outcome_mappings) THEN Some(DOMAIN Unwrap(outcome_mappings)) ELSE None

\* The entries of message["prices"] that name a level
named_levels(prices) ==
    { << Unwrap(prices[i].outcomeId), Unwrap(prices[i].price) >> :
        i \in { j \in 1..Len(prices) : /\ prices[j].side = Some("Against")
                                        /\ IsSome(prices[j].outcomeId)
                                        /\ IsSome(prices[j].price) } }

HandledMessage(message, market_type, did, should_zero) ==
    [ type |-> message.type, message |-> message, market_type |-> market_type, handled |-> did,
      should_zero |-> should_zero, books_before |-> order_books, db_before |-> monaco_db ]

\* A handler that returned before touching anything
ReturnedEarly(message, should_zero) ==
    /\ lastMonacoMsg' = HandledMessage(message, None, FALSE, should_zero)
    /\ processor_out' = None
    /\ UNCHANGED << order_books, lastBookOp, now, monaco_db, sinceClose, closedTypes, market_map, refresh_task >>

\* start_ingestion_engine: one message off the stream; the two handled types
\* spawn their handler
ReceiveMonacoMessage ==
    /\ nUpdates < MaxMonacoMsgs
    /\ nUpdates' = nUpdates + 1
    /\ \E msg \in MonacoMessages :
          monaco_tasks' = IF msg.type \in { "MarketPriceUpdate", "MarketStatusUpdate" }
                          THEN Append(monaco_tasks, msg) ELSE monaco_tasks
    /\ UNCHANGED << now, monaco_db, processor_out, lastMonacoMsg, sinceClose, closedTypes, market_map, refresh_task >>
    /\ UNCHANGED << bookVars, NonMonacoVars >>

\* handle_price_update on the mapping table the handler finds
handle_price_update(table) ==
    /\ \E i \in 1..Len(monaco_tasks) :
        LET message == monaco_tasks[i]
            key == mapping_key(Unwrap(message.eventId), Unwrap(message.marketId))
        IN
        /\ message.type = "MarketPriceUpdate"
        /\ monaco_tasks' = SubSeq(monaco_tasks, 1, i - 1) \o SubSeq(monaco_tasks, i + 1, Len(monaco_tasks))
        /\ IF \/ ~IsSome(message.marketId)
              \/ ~IsSome(message.eventId)
              \/ ~IsSome(message.prices)
              \/ message.prices = Some(<< >>)
           THEN ReturnedEarly(message, FALSE)
           ELSE IF key \notin DOMAIN table
           THEN ReturnedEarly(message, FALSE)
           ELSE IF ~IsSome(table[key].fixture_id)
           THEN ReturnedEarly(message, FALSE)
           ELSE
             LET mapping == table[key]
                 fixture_id == Unwrap(mapping.fixture_id)
                 books == update(order_books, fixture_id, message.prices, mapping.market_type,
                                 outcome_keys(mapping.outcome_mappings))
                 order_book == books[order_book_key(fixture_id, mapping.market_type)]
                 mappings == get_fixture_mappings(table, fixture_id)
             IN
             \E timestamp \in { now, now + 1 } :
               /\ order_books' = books
               /\ lastBookOp' = [ op |-> "update",
                                  key |-> order_book_key(fixture_id, mapping.market_type),
                                  message |-> message.prices, before |-> order_books ]
               /\ monaco_db' = update_database_with_best_prices(monaco_db, mapping.market_type,
                                                                order_book, mappings, timestamp)
               /\ processor_out' = IF IsSome(processor_client)
                                   THEN build_odds_update(fixture_id, mapping, order_book,
                                                          timestamp, timestamp)
                                   ELSE None
               /\ now' = timestamp
               /\ lastMonacoMsg' = HandledMessage(message, Some(mapping.market_type), TRUE, FALSE)
               /\ sinceClose' = MapPut(sinceClose, mapping.market_type,
                                       GetOr(sinceClose, mapping.market_type, {})
                                         \cup named_levels(Unwrap(message.prices)))
               /\ UNCHANGED << closedTypes, market_map, refresh_task >>
    /\ UNCHANGED << nUpdates, NonMonacoVars >>

\* handle_market_status_update on the mapping table the handler finds
handle_market_status_update(table) ==
    /\ \E i \in 1..Len(monaco_tasks) :
        LET message == monaco_tasks[i]
            key == mapping_key(Unwrap(message.eventId), Unwrap(message.marketId))
            status == IF IsSome(message.status) THEN Unwrap(message.status) ELSE "Unknown"
            in_play_status == IF IsSome(message.inPlayStatus) THEN Unwrap(message.inPlayStatus)
                              ELSE "NotApplicable"
            should_zero == status # "Open" \/ in_play_status = "InPlay"
        IN
        /\ message.type = "MarketStatusUpdate"
        /\ monaco_tasks' = SubSeq(monaco_tasks, 1, i - 1) \o SubSeq(monaco_tasks, i + 1, Len(monaco_tasks))
        /\ IF ~IsSome(message.marketId) \/ ~IsSome(message.eventId)
           THEN ReturnedEarly(message, FALSE)
           ELSE IF ~should_zero
           THEN ReturnedEarly(message, FALSE)
           ELSE IF key \notin DOMAIN table
           THEN ReturnedEarly(message, TRUE)
           ELSE IF ~IsSome(table[key].fixture_id)
           THEN ReturnedEarly(message, TRUE)
           ELSE
             LET mapping == table[key]
                 fixture_id == Unwrap(mapping.fixture_id)
                 empty_order_book == IF IsSome(mapping.outcome_mappings)
                                     THEN [ o \in DOMAIN Unwrap(mapping.outcome_mappings) |-> << >> ]
                                     ELSE EmptyMap
                 mappings == get_fixture_mappings(table, fixture_id)
             IN
             \E timestamp \in { now, now + 1 } :
               /\ order_books' = remove(order_books, fixture_id, mapping.market_type)
               /\ lastBookOp' = [ op |-> "remove",
                                  key |-> order_book_key(fixture_id, mapping.market_type),
                                  message |-> None, before |-> order_books ]
               /\ monaco_db' = update_database_with_best_prices(monaco_db, mapping.market_type,
                                                                empty_order_book, mappings,
                                                                timestamp)
               /\ processor_out' = None
               /\ now' = timestamp
               /\ lastMonacoMsg' = HandledMessage(message, Some(mapping.market_type), TRUE, TRUE)
               /\ sinceClose' = MapPut(sinceClose, mapping.market_type, {})
               /\ closedTypes' = closedTypes \cup { mapping.market_type }
               /\ UNCHANGED << market_map, refresh_task >>
    /\ UNCHANGED << nUpdates, NonMonacoVars >>

HandlePriceUpdate == handle_price_update(market_mapping)

HandleMarketStatusUpdate == handle_market_status_update(market_mapping)

NextMonaco ==
    \/ ReceiveMonacoMessage
    \/ HandlePriceUpdate
    \/ HandleMarketStatusUpdate

SpecMonaco == InitMonaco /\ [][NextMonaco]_vars

\* The mapping of the market a stream message names, None when the message
\* lacks an id, the market is not mapped or its mapping has no fixture
MappedMarket(message) ==
    IF ~IsSome(message.marketId) \/ ~IsSome(message.eventId) THEN None
    ELSE LET key == mapping_key(Unwrap(message.eventId), Unwrap(message.marketId))
         IN  IF key \in DOMAIN market_mapping /\ IsSome(market_mapping[key].fixture_id)
             THEN Some(market_mapping[key]) ELSE None

\* The order-book key of a mapped market
MarketBookKey(mapping) == order_book_key(Unwrap(mapping.fixture_id), mapping.market_type)

\* The latest handled message is a status update of a mapped market
LastIsStatusOfMapped ==
    /\ lastMonacoMsg.type = "MarketStatusUpdate"
    /\ IsSome(MappedMarket(lastMonacoMsg.message))

\* ... that closes the market: status other than "Open", or in play
LastClosesMarket ==
    /\ LastIsStatusOfMapped
    /\ \/ lastMonacoMsg.message.status # Some("Open")
       \/ lastMonacoMsg.message.inPlayStatus = Some("InPlay")

\* The latest handled message is a price update with prices for a mapped market
LastIsPriceOfMapped ==
    /\ lastMonacoMsg.type = "MarketPriceUpdate"
    /\ IsSome(MappedMarket(lastMonacoMsg.message))
    /\ IsSome(lastMonacoMsg.message.prices)
    /\ lastMonacoMsg.message.prices # Some(<< >>)

LatestOdds(row, market_type) ==
    LET odds_array == IF market_type = "x12" THEN row.odds_x12 ELSE row.odds_ah
    IN  IF odds_array = << >> THEN None ELSE Some(odds_array[Len(odds_array)])

AllZero(values) == \A i \in 1..Len(values) : values[i] = 0

\* The odds of an entry: the x12 array, or the home and away vectors in a row
OddsOf(entry) ==
    IF IsSome(entry.x12) THEN Unwrap(entry.x12)
    ELSE IF IsSome(entry.ah_h) THEN Unwrap(entry.ah_h) \o Unwrap(entry.ah_a)
         ELSE << >>

\* The market type closed by the latest message had odds in the store
ClosedWithExistingOdds ==
    /\ LastClosesMarket
    /\ IsSome(lastMonacoMsg.db_before)
    /\ LET before == LatestOdds(Unwrap(lastMonacoMsg.db_before),
                                Unwrap(MappedMarket(lastMonacoMsg.message)).market_type)
       IN  IsSome(before) /\ ~AllZero(OddsOf(Unwrap(before)))

\* The store shows the closed market type zeroed, odds and stakes
StoreZeroed ==
    LET market_type == Unwrap(MappedMarket(lastMonacoMsg.message)).market_type
        row == Unwrap(monaco_db)
        entry == Unwrap(LatestOdds(row, market_type))
        stakes == row.max_stakes[1]
    IN  /\ OddsOf(entry) # << >>
        /\ AllZero(OddsOf(entry))
        /\ IF market_type = "x12"
           THEN stakes.max_stake_x12 = Some(<< 0, 0, 0 >>)
           ELSE /\ Len(Unwrap(entry.ah_h)) = Len(row.lines[Len(row.lines)].ah)
                /\ Len(Unwrap(entry.ah_a)) = Len(row.lines[Len(row.lines)].ah)
                /\ IsSome(stakes.max_stake_ah)
                /\ AllZero(Unwrap(stakes.max_stake_ah).h)
                /\ AllZero(Unwrap(stakes.max_stake_ah).a)

\* The normalized stream carried the zeroed update to the processor
StreamZeroed ==
    LET market_type == Unwrap(MappedMarket(lastMonacoMsg.message)).market_type IN
    /\ IsSome(processor_out)
    /\ IF market_type = "x12"
       THEN Unwrap(processor_out).x12 = Some(<< 0, 0, 0 >>)
       ELSE /\ IsSome(Unwrap(processor_out).ah_h)
            /\ AllZero(Unwrap(Unwrap(processor_out).ah_h))
            /\ AllZero(Unwrap(Unwrap(processor_out).ah_a))

\* C12: when a market with existing odds is closed, an update with zero odds
\* for all known lines and zero stakes is written to the store and sent on
\* the normalized stream to the processor.
C12_ZeroingEmitted ==
    ClosedWithExistingOdds => (StoreZeroed /\ StreamZeroed)

\* The store half of C12 alone
StoreZeroedOnClose ==
    ClosedWithExistingOdds => StoreZeroed

\* round(n / d), halves to even, for n >= 0 and d > 0
RoundHalfEven(n, d) ==
    LET q == n \div d
        r == n % d
    IN  IF 2 * r < d THEN q
        ELSE IF 2 * r > d THEN q + 1
        ELSE IF q % 2 = 0 THEN q ELSE q + 1

\* The best price of the x12 outcome mapped to index idx, None when the book
\* is absent or the outcome's ladder is empty
BestX12Price(idx) ==
    LET key == order_book_key(1, "x12")
        order_book == IF key \in DOMAIN order_books THEN order_books[key] ELSE OrderBook_new
    IN  best_level_of(order_book, { o \in DOMAIN X12Outcomes : X12Outcomes[o] = idx })

\* round(((p - 1) * 0.99 + 1) * 1000) of the best price of index idx, 0 when none
RoundedSlot(idx) ==
    IF IsSome(BestX12Price(idx))
    THEN RoundHalfEven((Unwrap(BestX12Price(idx)).price - 100) * 99 + 10000, 10)
    ELSE 0

\* floor(((p - 1) * 0.99 + 1) * 1000) in f64 of the best price of index idx
FlooredSlot(idx) ==
    IF IsSome(BestX12Price(idx)) THEN transform_price(Unwrap(BestX12Price(idx)).price) ELSE 0

\* The latest persisted x12 projection has slot(i) at index i
X12ProjectionIs(slot(_)) ==
    (IsSome(monaco_db) /\ IsSome(LatestOdds(Unwrap(monaco_db), "x12"))) =>
       \A i \in 1..3 : Unwrap(Unwrap(LatestOdds(Unwrap(monaco_db), "x12")).x12)[i] = slot(i - 1)

\* C13: slot i of the persisted Monaco x12 projection is
\* round(((p - 1) * 0.99 + 1) * 1000) for the best price p of the outcome
\* mapped to i, and 0 when that ladder is empty.
C13_X12Rounded ==
    X12ProjectionIs(RoundedSlot)

\* What the code computes instead: the floor of the same expression
X12Floored ==
    X12ProjectionIs(FlooredSlot)

\* The example of C13: ladders X1 {1.80, 1.95}, X2 {3.40}, X3 {4.20} project
\* to [1940, 3376, 4168]
X12ExampleProjected ==
    (/\ BestX12Price(0) = Some(PriceLevel(195, 50))
     /\ BestX12Price(1) = Some(PriceLevel(340, 80))
     /\ BestX12Price(2) = Some(PriceLevel(420, 60))
     /\ IsSome(monaco_db))
    => Unwrap(LatestOdds(Unwrap(monaco_db), "x12")).x12 = Some(<< 1940, 3376, 4168 >>)

\* The fixture's current ah line vector: the latest lines entry of the row
CurrentLines == Unwrap(monaco_db).lines[Len(Unwrap(monaco_db).lines)].ah

HasCurrentLines == IsSome(monaco_db) /\ Unwrap(monaco_db).lines # << >>

\* What position k of a side's vector is filled from: the best price, after
\* the margin, of the ladder whose mapping has line_value = lines[k]
ExpectedAtLine(k, parity) ==
    LET key == order_book_key(1, "ah")
        order_book == IF key \in DOMAIN order_books THEN order_books[key] ELSE OrderBook_new
        of_line == { o \in DOMAIN order_book :
                       \E m \in DOMAIN market_mapping :
                          /\ market_mapping[m].market_type = "ah"
                          /\ market_mapping[m].line_value = Some(CurrentLines[k])
                          /\ IsSome(market_mapping[m].outcome_mappings)
                          /\ o \in DOMAIN Unwrap(market_mapping[m].outcome_mappings)
                          /\ Unwrap(market_mapping[m].outcome_mappings)[o] % 2 = parity }
        best == best_level_of(order_book, of_line)
    IN  IF IsSome(best) THEN transform_price(Unwrap(best).price) ELSE 0

\* A pair of side vectors is complete over the current lines
CompleteOverLines(home, away) ==
    /\ IsSome(home) /\ IsSome(away)
    /\ Len(Unwrap(home)) = Len(CurrentLines)
    /\ Len(Unwrap(away)) = Len(CurrentLines)
    /\ \A k \in 1..Len(CurrentLines) :
          /\ Unwrap(home)[k] = ExpectedAtLine(k, 0)
          /\ Unwrap(away)[k] = ExpectedAtLine(k, 1)

\* The persisted half of C14: the latest odds_ah entry is complete
PersistedProjectionComplete ==
    (HasCurrentLines /\ IsSome(LatestOdds(Unwrap(monaco_db), "ah"))) =>
       CompleteOverLines(Unwrap(LatestOdds(Unwrap(monaco_db), "ah")).ah_h,
                         Unwrap(LatestOdds(Unwrap(monaco_db), "ah")).ah_a)

\* The update just sent to the processor is an ah projection
SentLineProjection ==
    /\ IsSome(processor_out)
    /\ LastIsPriceOfMapped
    /\ lastMonacoMsg.market_type = Some("ah")

\* The stream half of C14: the ah update sent carries the current lines and
\* complete vectors
SentProjectionComplete ==
    (HasCurrentLines /\ SentLineProjection) =>
       /\ Unwrap(processor_out).ah_lines = Some(CurrentLines)
       /\ CompleteOverLines(Unwrap(processor_out).ah_h, Unwrap(processor_out).ah_a)

\* C14: every ah projection of the fixture, persisted or sent to the
\* processor, carries the fixture's current line vector and home/away
\* vectors of that length, position i filled from the ladder whose mapping
\* has line_value = lines[i].
C14_ProjectionComplete ==
    PersistedProjectionComplete /\ SentProjectionComplete

-----------------------------------------------------------------------------
(* odds-engine: pinnacle/mod.rs, pinnacle/db.rs                             *)
(* One event of a known league, polled once per cycle. Odds are in          *)
(* hundredths (195 is 1.95), handicaps in tenths; totals (ou) are the       *)
(* spreads branch with other key names and are left out.                    *)

\* pinnacle/types.rs
MoneyLine(home, draw, away) == [ home |-> home, draw |-> draw, away |-> away ]
PinnacleSpread(hdp, alt_line_id, home, away) ==
    [ hdp |-> hdp, alt_line_id |-> alt_line_id, home |-> home, away |-> away ]
Meta(max_money_line, max_spread, open_money_line) ==
    [ max_money_line |-> max_money_line, max_spread |-> max_spread,
      open_money_line |-> open_money_line ]
PinnaclePeriod(line_id, period_status, money_line, spreads, meta) ==
    [ line_id |-> line_id, period_status |-> period_status, money_line |-> money_line,
      spreads |-> spreads, meta |-> meta ]

\* create_new_odds_entry: transform_odds = (odds * 1000.0).round() as i32
transform_odds(odds) == odds * 10

\* The keys of a spreads map sorted by their numeric value
RECURSIVE sorted_keys(_)
sorted_keys(keys) ==
    IF keys = {} THEN << >>
    ELSE LET least == CHOOSE k \in keys : \A j \in keys : k <= j
         IN  << least >> \o sorted_keys(keys \ { least })

\* is_different: the two entries differ once "t" is removed
without_t(entry) == [ k \in DOMAIN entry \ { "t" } |-> entry[k] ]
is_different(v1, v2) == without_t(v1) # without_t(v2)

\* A merge that appends the new item whatever the latest entry is
merge_history_appending(existing, new_items) ==
    IF new_items = << >> THEN existing ELSE Append(existing, new_items[1])

\* merge_history
merge_history(existing, new_items) ==
    IF new_items = << >> THEN existing
    ELSE IF existing # << >>
         THEN IF is_different(existing[Len(existing)], new_items[1])
              THEN Append(existing, new_items[1])
              ELSE existing
         ELSE << new_items[1] >>

PinnacleRow(odds_x12, odds_ah, lines, ids, max_stakes, latest_t) ==
    [ odds_x12 |-> odds_x12, odds_ah |-> odds_ah, lines |-> lines, ids |-> ids,
      max_stakes |-> max_stakes, latest_t |-> latest_t ]

\* A NULL column reads as an empty array
EmptyPinnacleRow == PinnacleRow(<< >>, << >>, << >>, << >>, << >>, EmptyMap)

\* create_new_odds_entry: the entries prepared from the period
prepared_entries(period, timestamp) ==
    LET has_spreads == IsSome(period.spreads) /\ DOMAIN Unwrap(period.spreads) # {}
        spreads == Unwrap(period.spreads)
        spread_keys == sorted_keys(DOMAIN spreads)
        column(f(_)) == [ i \in 1..Len(spread_keys) |-> f(spreads[spread_keys[i]]) ]
        home_of(s) == transform_odds(s.home)
        away_of(s) == transform_odds(s.away)
        hdp_of(s) == s.hdp
        alt_of(s) == IF IsSome(s.alt_line_id) THEN Unwrap(s.alt_line_id) ELSE 0
        meta == Unwrap(period.meta)
    IN  [ x12_odds |->
            IF IsSome(period.money_line)
            THEN << [ t |-> timestamp,
                      x12 |-> << transform_odds(Unwrap(period.money_line).home),
                                 transform_odds(Unwrap(period.money_line).draw),
                                 transform_odds(Unwrap(period.money_line).away) >> ] >>
            ELSE << >>,
          ah_odds |->
            IF has_spreads
            THEN << [ t |-> timestamp, ah_h |-> column(home_of), ah_a |-> column(away_of) ] >>
            ELSE << >>,
          lines |->
            IF has_spreads THEN << [ t |-> timestamp, ah |-> column(hdp_of) ] >> ELSE << >>,
          ids |->
            IF has_spreads
            THEN << [ t |-> timestamp, line_id |-> period.line_id, line_ids |-> column(alt_of) ] >>
            ELSE << >>,
          max_stakes |->
            IF IsSome(period.meta)
            THEN << [ t |-> timestamp,
                      max_stake_x12 |-> IF IsSome(meta.max_money_line)
                                        THEN << Unwrap(meta.max_money_line) >> ELSE << >>,
                      max_stake_ah |-> IF IsSome(meta.max_spread)
                                       THEN Some([ h |-> << Unwrap(meta.max_spread) >>,
                                                   a |-> << Unwrap(meta.max_spread) >> ])
                                       ELSE None ] >>
            ELSE << >> ]

\* create_new_odds_entry: the row after the call and whether it was written
create_new_odds_entry(period, existing_data, timestamp) ==
    LET new == prepared_entries(period, timestamp)
        existing == IF IsSome(existing_data) THEN Unwrap(existing_data) ELSE EmptyPinnacleRow
        final_x12 == IF IsSome(existing_data) THEN merge_history(existing.odds_x12, new.x12_odds)
                     ELSE new.x12_odds
        final_ah == IF IsSome(existing_data) THEN merge_history(existing.odds_ah, new.ah_odds)
                    ELSE new.ah_odds
        final_lines == IF IsSome(existing_data) THEN merge_history(existing.lines, new.lines)
                       ELSE new.lines
        final_max_stakes == IF IsSome(existing_data)
                            THEN merge_history(existing.max_stakes, new.max_stakes)
                            ELSE new.max_stakes
        updates == (IF Len(final_x12) > Len(existing.odds_x12) THEN { "X12" } ELSE {})
                   \cup (IF Len(final_ah) > Len(existing.odds_ah) THEN { "AH" } ELSE {})
                   \cup (IF Len(final_lines) > Len(existing.lines) THEN { "Lines" } ELSE {})
                   \cup (IF Len(final_max_stakes) > Len(existing.max_stakes)
                         THEN { "Stakes" } ELSE {})
        stamped == (IF final_x12 # << >> THEN { ts_key("x12") } ELSE {})
                   \cup (IF final_ah # << >> THEN { ts_key("ah") } ELSE {})
                   \cup (IF final_lines # << >> THEN { ts_key("lines") } ELSE {})
                   \cup (IF new.ids # << >> THEN { ts_key("ids") } ELSE {})
        latest_t == [ k \in DOMAIN existing.latest_t \cup stamped |->
                        IF k \in stamped THEN timestamp ELSE existing.latest_t[k] ]
    IN  IF updates # {}
        THEN [ row |-> Some(PinnacleRow(final_x12, final_ah, final_lines, new.ids,
                                        final_max_stakes, latest_t)),
               db_updated |-> TRUE ]
        ELSE [ row |-> existing_data, db_updated |-> FALSE ]

\* create_zero_period
create_zero_period(period) ==
    [ period EXCEPT
        !.money_line = IF IsSome(period.money_line) THEN Some(MoneyLine(0, 0, 0)) ELSE None,
        !.spreads = IF IsSome(period.spreads)
                    THEN Some([ k \in DOMAIN Unwrap(period.spreads) |->
                                  [ Unwrap(period.spreads)[k] EXCEPT !.home = 0, !.away = 0 ] ])
                    ELSE None,
        !.meta = IF IsSome(period.meta)
                 THEN Some(Meta(IF IsSome(Unwrap(period.meta).max_money_line) THEN Some(0) ELSE None,
                                IF IsSome(Unwrap(period.meta).max_spread) THEN Some(0) ELSE None,
                                Some(FALSE)))
                 ELSE None ]

\* process_cycle: is_market_open (open_money_line stands for the three open flags)
is_market_open(period, cutoff_in_future) ==
    /\ period.period_status = 1
    /\ IsSome(period.money_line) \/ IsSome(period.spreads)
    /\ cutoff_in_future
    /\ IsSome(period.meta)
    /\ Unwrap(period.meta).open_money_line = Some(TRUE)

\* transform_pinnacle_odds = (decimal_odds * 1000.0).round() as i32
transform_pinnacle_odds(decimal_odds) == decimal_odds * 10

\* The orders in which spreads.values() may iterate the spreads of a period
SpreadOrders(period) ==
    IF IsSome(period.spreads) THEN IterationOrders(DOMAIN Unwrap(period.spreads))
    ELSE { << >> }

\* create_processor_update; spread_order is the order spreads.values() yields
create_processor_update(fixture_id, period, start_timestamp, timestamp, spread_order) ==
    LET has_spreads == IsSome(period.spreads) /\ spread_order # << >>
        column(f(_)) == [ i \in 1..Len(spread_order) |->
                            f(Unwrap(period.spreads)[spread_order[i]]) ]
        hdp_of(s) == s.hdp
        home_of(s) == transform_pinnacle_odds(s.home)
        away_of(s) == transform_pinnacle_odds(s.away)
        alt_of(s) == IF IsSome(s.alt_line_id) THEN Unwrap(s.alt_line_id) ELSE 0
        max_spread_of(s) == Unwrap(Unwrap(period.meta).max_spread)
        max_x12 == IF /\ IsSome(period.money_line)
                      /\ IsSome(period.meta)
                      /\ IsSome(Unwrap(period.meta).max_money_line)
                   THEN Some([ i \in 1..3 |-> Unwrap(Unwrap(period.meta).max_money_line) ])
                   ELSE None
        max_ah == IF /\ has_spreads
                     /\ IsSome(period.meta)
                     /\ IsSome(Unwrap(period.meta).max_spread)
                  THEN Some([ h |-> column(max_spread_of), a |-> column(max_spread_of) ])
                  ELSE None
        has_stakes == IsSome(max_x12) \/ IsSome(max_ah)
        stamped == (IF IsSome(period.money_line) THEN { ts_key("x12") } ELSE {})
                   \cup (IF has_spreads THEN { ts_key("ah"), ts_key("lines"), ts_key("ids") }
                         ELSE {})
                   \cup (IF has_stakes THEN { ts_key("stakes") } ELSE {})
    IN  [ EngineOddsUpdate_default EXCEPT
            !.fixture_id = fixture_id, !.bookie_id = 2, !.bookmaker = "Pinnacle",
            !.timestamp = timestamp, !.start = start_timestamp, !.decimals = 3,
            !.x12 = IF IsSome(period.money_line)
                    THEN Some(<< transform_pinnacle_odds(Unwrap(period.money_line).home),
                                 transform_pinnacle_odds(Unwrap(period.money_line).draw),
                                 transform_pinnacle_odds(Unwrap(period.money_line).away) >>)
                    ELSE None,
            !.ah_lines = IF has_spreads THEN Some(column(hdp_of)) ELSE None,
            !.ah_h = IF has_spreads THEN Some(column(home_of)) ELSE None,
            !.ah_a = IF has_spreads THEN Some(column(away_of)) ELSE None,
            !.ids = IF has_spreads THEN Some([ t |-> timestamp, line_ids |-> column(alt_of) ])
                    ELSE None,
            !.max_stakes = IF has_stakes THEN Some(StakesEntry(timestamp, max_x12, max_ah))
                           ELSE None,
            !.latest_t = IF stamped = {} THEN None
                         ELSE Some([ k \in stamped |-> timestamp ]) ]

-----------------------------------------------------------------------------
(* SpecPinnacle: successive polls of one Pinnacle event                     *)

MaxPolls == 3

MoneyLines == { None, Some(MoneyLine(195, 340, 420)), Some(MoneyLine(181, 340, 420)) }

OneSpread == [ k \in { -5 } |-> PinnacleSpread(-5, Some(1), 190, 200) ]
TwoSpreads == [ k \in { -5, 5 } |-> IF k = -5 THEN PinnacleSpread(-5, Some(1), 190, 200)
                                              ELSE PinnacleSpread(5, None, 250, 150) ]
OpenMeta == Meta(Some(100), Some(50), Some(TRUE))

\* Period 0 of the event: the money line and one spread present or not, with
\* or without meta; two spreads; meta closed; period status other than 1
PinnaclePeriods ==
    { PinnaclePeriod(7, 1, ml, spreads, meta) :
        ml \in MoneyLines, spreads \in { None, Some(OneSpread) }, meta \in { None, Some(OpenMeta) } }
    \cup { PinnaclePeriod(7, 1, Some(MoneyLine(195, 340, 420)), Some(TwoSpreads), Some(OpenMeta)),
           PinnaclePeriod(7, 1, Some(MoneyLine(195, 340, 420)), Some(OneSpread),
                          Some(Meta(None, Some(50), Some(FALSE)))),
           PinnaclePeriod(7, 2, Some(MoneyLine(195, 340, 420)), None, Some(OpenMeta)) }

InitPinnacle ==
    /\ InitCacheVars(Cache_new(1))
    /\ InitHistVars /\ InitWsVars /\ InitBookVars /\ InitIdleVars

Polled(period, called, result, sent, timestamp) ==
    [ polled |-> TRUE, period |-> period, called |-> called, before |-> pinnacle_db,
      db_updated |-> result.db_updated, sent |-> sent, timestamp |-> timestamp ]

\* process_cycle, for the one event: the closed branch zeroes existing odds,
\* the open branch writes the period and sends it on when the row changed
PollPinnacle ==
    /\ nUpdates < MaxPolls
    /\ nUpdates' = nUpdates + 1
    /\ \E period \in PinnaclePeriods, cutoff_in_future \in BOOLEAN,
          found \in { None, Some(1) }, timestamp \in { now, now + 1 } :
          LET skipped == [ row |-> pinnacle_db, db_updated |-> FALSE ]
              sends(result) == result.db_updated /\ IsSome(processor_client)
              zero_period == create_zero_period(period)
              zeroed == create_new_odds_entry(zero_period, pinnacle_db, timestamp)
              fixture_id == IF IsSome(pinnacle_db) THEN Some(1) ELSE found
              written == create_new_odds_entry(period, pinnacle_db, timestamp)
          IN
          /\ now' = timestamp
          /\ IF ~is_market_open(period, cutoff_in_future)
             THEN IF IsSome(pinnacle_db)
                  THEN /\ pinnacle_db' = zeroed.row
                       /\ lastPoll' = Polled(zero_period, TRUE, zeroed, FALSE, timestamp)
                       /\ processor_out' = None
                  ELSE /\ pinnacle_db' = pinnacle_db
                       /\ lastPoll' = Polled(period, FALSE, skipped, FALSE, timestamp)
                       /\ processor_out' = None
             ELSE IF IsSome(fixture_id)
                  THEN /\ pinnacle_db' = written.row
                       /\ lastPoll' = Polled(period, TRUE, written, sends(written), timestamp)
                       /\ \E spread_order \in SpreadOrders(period) :
                             processor_out' =
                               IF sends(written)
                               THEN Some(create_processor_update(Unwrap(fixture_id), period, now,
                                                                 timestamp, spread_order))
                               ELSE None
                  ELSE /\ pinnacle_db' = pinnacle_db
                       /\ lastPoll' = Polled(period, FALSE, skipped, FALSE, timestamp)
                       /\ processor_out' = None
    /\ UNCHANGED << monaco_tasks, monaco_db, lastMonacoMsg, sinceClose, closedTypes, market_map, refresh_task >>
    /\ UNCHANGED << cacheVars, histVars, wsVars, bookVars, callVars, netVars >>

NextPinnacle == PollPinnacle

SpecPinnacle == InitPinnacle /\ [][NextPinnacle]_vars

\* Two history entries are equal when t is ignored
EqualUpToT(e1, e2) ==
    /\ DOMAIN e1 = DOMAIN e2
    /\ \A k \in DOMAIN e1 \ { "t" } : e1[k] = e2[k]

NoConsecutiveEqual(history) ==
    \A i \in 1..(Len(history) - 1) : ~EqualUpToT(history[i], history[i + 1])

\* The history columns of a row, and the entries a poll prepared for them
HistoryColumns(row) == << row.odds_x12, row.odds_ah, row.lines, row.max_stakes >>

PreparedColumns ==
    LET new == prepared_entries(lastPoll.period, lastPoll.timestamp)
    IN  << new.x12_odds, new.ah_odds, new.lines, new.max_stakes >>

\* The poll prepared nothing new for column c
NothingNew(c) ==
    \/ PreparedColumns[c] = << >>
    \/ /\ HistoryColumns(Unwrap(lastPoll.before))[c] # << >>
       /\ EqualUpToT(HistoryColumns(Unwrap(lastPoll.before))[c]
                        [Len(HistoryColumns(Unwrap(lastPoll.before))[c])],
                     PreparedColumns[c][1])

\* C15: in every column an entry equal to the latest one up to t is not
\* appended, no column history has two consecutive entries equal up to t,
\* and a poll that brings nothing new in any column writes nothing.
C15_HistoryCompacted ==
    /\ IsSome(pinnacle_db) =>
          \A c \in 1..4 : NoConsecutiveEqual(HistoryColumns(Unwrap(pinnacle_db))[c])
    /\ (lastPoll.polled /\ lastPoll.called /\ IsSome(lastPoll.before)) =>
          /\ \A c \in 1..4 :
                NothingNew(c) => HistoryColumns(Unwrap(pinnacle_db))[c]
                                   = HistoryColumns(Unwrap(lastPoll.before))[c]
          /\ (\A c \in 1..4 : NothingNew(c)) =>
                (~lastPoll.db_updated /\ pinnacle_db = lastPoll.before)

\* A poll that repeats the latest money line and spreads and writes nothing
C15_Witness ==
    /\ lastPoll.polled /\ lastPoll.called /\ IsSome(lastPoll.before)
    /\ PreparedColumns[1] # << >>
    /\ PreparedColumns[2] # << >>
    /\ \A c \in 1..4 : NothingNew(c)
    /\ ~lastPoll.db_updated

\* The columns of the update a poll sent, in the order of HistoryColumns
SentColumns ==
    << Unwrap(processor_out).x12, Unwrap(processor_out).ah_h,
       Unwrap(processor_out).ah_lines, Unwrap(processor_out).max_stakes >>

\* C26: an update sent to the processor contains only the columns whose
\* values changed with respect to the previous state of the fixture and
\* bookmaker; a column the poll brought nothing new for is absent.
C26_OnlyChangedColumns ==
    (lastPoll.polled /\ lastPoll.sent /\ IsSome(lastPoll.before)) =>
        \A c \in 1..4 : NothingNew(c) => ~IsSome(SentColumns[c])

\* create_processor_update sends every column the period has
WholePeriodSent ==
    (lastPoll.polled /\ lastPoll.sent) =>
        /\ IsSome(Unwrap(processor_out).x12) = IsSome(lastPoll.period.money_line)
        /\ IsSome(Unwrap(processor_out).ah_h) = IsSome(lastPoll.period.spreads)
        /\ IsSome(Unwrap(processor_out).ah_lines) = IsSome(lastPoll.period.spreads)

\* The money line the store already holds, unchanged and not zero, is sent
\* again because the spreads changed
UnchangedMoneyLineResent ==
    /\ lastPoll.polled /\ lastPoll.sent /\ IsSome(lastPoll.before)
    /\ NothingNew(1) /\ ~NothingNew(2)
    /\ Unwrap(lastPoll.before).odds_x12 # << >>
    /\ Unwrap(processor_out).x12
         = Some(Unwrap(lastPoll.before).odds_x12[Len(Unwrap(lastPoll.before).odds_x12)].x12)
    /\ Unwrap(processor_out).x12 # Some(<< 0, 0, 0 >>)

\* The Monaco path: a price update that leaves the best match-odds prices as
\* they were sends the x12 column again
MonacoUnchangedResent ==
    /\ lastMonacoMsg.type = "MarketPriceUpdate" /\ lastMonacoMsg.handled
    /\ lastMonacoMsg.market_type = Some("x12")
    /\ IsSome(processor_out)
    /\ order_book_key(1, "x12") \in DOMAIN lastMonacoMsg.books_before
    /\ Unwrap(processor_out).x12
         = Unwrap(build_odds_update(1, Unwrap(MappedMarket(lastMonacoMsg.message)),
                                    lastMonacoMsg.books_before[order_book_key(1, "x12")],
                                    0, 0)).x12

-----------------------------------------------------------------------------
(* Function specifications: Init draws the arguments of one call from a     *)
(* bounded set, the one step applies the function and records what it       *)
(* returned.                                                                *)

InitNoCall ==
    /\ InitCacheVars(Cache_new(1))
    /\ InitHistVars /\ InitWsVars /\ InitBookVars /\ InitMonacoVars(None) /\ InitPinnacleVars
    /\ InitNetVars

NonCallVars == << cacheVars, nUpdates, histVars, wsVars, bookVars, monacoVars, pinnacleVars,
                 netVars >>

Returned == IsSome(ret)

-----------------------------------------------------------------------------
(* SpecFair: calculate_fair_odds on odds vectors at one decimal, and on    *)
(* the worked example and vectors without margin at three decimals         *)

FairOddsValues == { -10, 0, 15, 19, 20, 21, 30, 40 }
FairLengths == { 1, 2, 3 }
FairDecimals == { 1 }
FairOutcomeCounts == { 2, 3 }

\* Vectors of one to three odds, and a long shot against odds below 1.0
FairOddsVectors ==
    UNION { [ 1..len -> FairOddsValues ] : len \in FairLengths } \cup { << 9, 1200 >> }

\* The x12 example of the specification, at three decimals
WorkedFairCall == [ odds |-> << 1900, 3600, 4100 >>, decimals |-> 3, n |-> 3 ]

\* Odds at three decimals whose inverses sum to 1
FairOddsWithoutMargin ==
    { << 2000, 2000 >>, << 1250, 5000 >>, << 3000, 3000, 3000 >>, << 2000, 4000, 4000 >> }

FairCalls ==
    { [ odds |-> odds, decimals |-> decimals, n |-> n ] :
        odds \in FairOddsVectors, decimals \in FairDecimals, n \in FairOutcomeCounts }
    \cup { WorkedFairCall }
    \cup { [ odds |-> odds, decimals |-> 3, n |-> Len(odds) ] : odds \in FairOddsWithoutMargin }

InitFair ==
    /\ InitNoCall
    /\ call \in FairCalls
    /\ ret = None

CallFairOdds ==
    /\ ~Returned
    /\ ret' = Some(calculate_fair_odds(call.odds, call.decimals, call.n))
    /\ UNCHANGED << call, NonCallVars >>

NextFair == CallFairOdds

SpecFair == InitFair /\ [][NextFair]_vars

\* sum(1 / d_i) - 1 > 0.12 for the decimal odds d_i = odds[i] / 10^decimals, all positive:
\* sum(10^decimals / odds[i]) > 1.12, cleared of fractions
MarginExceededIn(o, S, P) ==
    100 * S * SumSeq([ i \in 1..Len(o) |-> P \div o[i] ]) > 112 * P

MarginExceeded(odds, decimals) ==
    MarginExceededIn(reduced(odds, decimals).odds, reduced(odds, decimals).S,
                     ProdSeq(reduced(odds, decimals).odds))

\* n - margin * d_i > 0 for every i, cleared of fractions
DenominatorsPositiveIn(o, S, P, Q, n) ==
    \A i \in 1..Len(o) : n * P * S > (S * Q - P) * o[i]

DenominatorsPositive(odds, decimals, n) ==
    DenominatorsPositiveIn(reduced(odds, decimals).odds, reduced(odds, decimals).S,
                           ProdSeq(reduced(odds, decimals).odds),
                           SumSeq([ i \in 1..Len(odds) |->
                                      ProdSeq(reduced(odds, decimals).odds)
                                        \div reduced(odds, decimals).odds[i] ]), n)

Rejected(odds, decimals, n) ==
    \/ Len(odds) # n
    \/ \E i \in 1..Len(odds) : odds[i] <= 0
    \/ MarginExceeded(odds, decimals)

IsRounded(v, num, den) == 2 * v * den <= 2 * num + den /\ 2 * num + den < 2 * (v + 1) * den

\* fair[i] = round(f_i * 10^decimals) with f_i = N * d_i / (N - M * d_i) and
\* M = sum(1 / d_j) - 1 for d_j = odds[j] / S, cleared of fractions with
\* P = prod(odds) and Q = sum(P / odds[j]): M = (S*Q - P) / P and
\* f_i * S = n * odds[i] * P * S / (n * P * S - (S*Q - P) * odds[i])
FollowsFormulaIn(fair, odds, S, P, Q, n) ==
    \A i \in 1..Len(odds) :
        IsRounded(fair[i], n * odds[i] * P * S, n * P * S - (S * Q - P) * odds[i])

FollowsFormula(fair, odds, decimals, n) ==
    FollowsFormulaIn(fair, odds, Pow10(decimals), ProdSeq(odds),
                     SumSeq([ i \in 1..Len(odds) |-> ProdSeq(odds) \div odds[i] ]), n)

\* M = 0: the inverses of the decimal odds sum to 1
WithoutMarginIn(o, S, P) == S * SumSeq([ i \in 1..Len(o) |-> P \div o[i] ]) = P

WithoutMargin(odds, decimals) ==
    WithoutMarginIn(reduced(odds, decimals).odds, reduced(odds, decimals).S,
                    ProdSeq(reduced(odds, decimals).odds))

Accepted == Returned /\ IsSome(Unwrap(ret))

\* C34 as amended: for every accepted input each fair-odds output equals
\* round(f_i * 10^decimals) with f_i = (N * d_i) / (N - M * d_i) and
\* M = (sum of 1/d_i) - 1; for the x12 input [1900, 3600, 4100] at
\* decimals = 3 the result is [1960, 3820, 4388]; an input with M = 0 is
\* returned unchanged. (The formula is checked on the one-decimal inputs.)
C34_FairOddsFormula ==
    Accepted =>
        /\ call.decimals = 1 =>
              FollowsFormula(Unwrap(Unwrap(ret)), call.odds, call.decimals, call.n)
        /\ call = WorkedFairCall => Unwrap(Unwrap(ret)) = << 1960, 3820, 4388 >>
        /\ WithoutMargin(call.odds, call.decimals) => Unwrap(Unwrap(ret)) = call.odds

\* C34 witness: the worked example was accepted
C34_Witness ==
    /\ Accepted
    /\ call = WorkedFairCall
    /\ Len(Unwrap(Unwrap(ret))) = 3

\* C34 as claimed: the same with [1962, 3761, 4331] for the worked example
C34_AsClaimed ==
    Accepted =>
        /\ call.decimals = 1 =>
              FollowsFormula(Unwrap(Unwrap(ret)), call.odds, call.decimals, call.n)
        /\ call = WorkedFairCall => Unwrap(Unwrap(ret)) = << 1962, 3761, 4331 >>
        /\ WithoutMargin(call.odds, call.decimals) => Unwrap(Unwrap(ret)) = call.odds

\* An input without margin at one decimal and one at three were returned unchanged
WithoutMarginUnchanged ==
    /\ Accepted
    /\ WithoutMargin(call.odds, call.decimals)
    /\ call.odds = << 2000, 4000, 4000 >>
    /\ Unwrap(Unwrap(ret)) = call.odds

\* An accepted one-decimal input with a margin whose outputs differ from the input
FormulaMovesOdds ==
    /\ Accepted
    /\ call.decimals = 1
    /\ ~WithoutMargin(call.odds, call.decimals)
    /\ \A i \in 1..Len(call.odds) : Unwrap(Unwrap(ret))[i] > call.odds[i]

-----------------------------------------------------------------------------
(* SpecFilter: the filter evaluator as a function of a document and an      *)
(* expression.  Lines are in hundredths, odds in thousandths.               *)

\* A bookmaker slot whose current snapshot carries one AH market and x12_h
FilterSlot(ah_lines, ah_h, ah_a, x12_h) ==
    [ BookmakerOdds_default EXCEPT
        !.current = [ OddsSnapshot_default EXCEPT
                        !.ah_lines = ah_lines, !.ah_h = ah_h, !.ah_a = ah_a, !.x12_h = x12_h ] ]

FilterDoc(bookmakers) == [ FixtureData_new(1) EXCEPT !.bookmakers = bookmakers ]

LineValues == { -50, -25, 0, 50 }
BothLines  == << -50, 50 >>

\* Documents with bookmaker "B" on both lines and, in most, a bookmaker "C"
PerLineDocs ==
    { FilterDoc(IF c_ah_h = << >>
                THEN [ b \in { "B" } |-> FilterSlot(BothLines, b_ah_h, b_ah_a, b_x12_h) ]
                ELSE [ b \in { "B", "C" } |->
                         IF b = "B" THEN FilterSlot(BothLines, b_ah_h, b_ah_a, b_x12_h)
                         ELSE FilterSlot(BothLines, c_ah_h, << 2000, 2000 >>, None) ]) :
        b_ah_h \in { << 1900, 2100 >>, << 2100, 1900 >>, << 2100, 2100 >> },
        b_ah_a \in { << 2100, 1900 >>, << 1900, 2100 >> },
        b_x12_h \in { None, Some(2100) },
        c_ah_h \in { << >>, << 2000, 2000 >>, << 1800, 2200 >> } }

HomeAtLeast == CompareExpr("B", "ah_h", "gte", Some(2000))
AwayAtLeast == CompareExpr("B", "ah_a", "gte", Some(2000))
X12AtLeast  == CompareExpr("B", "x12_h", "gte", Some(2000))
HomeBeatsC  == ComputedCompareExpr(ComputedValue("subtract", FieldOperand("B", "ah_h"),
                                                 FieldOperand("C", "ah_h")), "gte", Some(0))
HomeOrAway  == Combinator("or", << HomeAtLeast, AwayAtLeast >>)

PlainClauses   == { HomeAtLeast, AwayAtLeast, X12AtLeast }
PerLineClauses == PlainClauses \cup { HomeBeatsC, HomeOrAway }

\* Lists of at most two clauses
ClauseLists ==
    { << >> } \cup { << k >> : k \in PerLineClauses }
              \cup { << k1, k2 >> : k1 \in PerLineClauses, k2 \in PerLineClauses }

\* The worked example: three lines, home >= 2.150 and away >= 1.750
ThreeLineDoc ==
    FilterDoc([ b \in { "B" } |-> FilterSlot(<< -50, -25, 0 >>, << 2100, 2200, 2300 >>,
                                             << 1800, 1750, 1700 >>, None) ])

ThreeLineCall ==
    [ fn |-> "per_line_and", data |-> ThreeLineDoc,
      conditions |-> << CompareExpr("B", "ah_h", "gte", Some(2150)),
                        CompareExpr("B", "ah_a", "gte", Some(1750)) >> ]

PerLineCalls ==
    { [ fn |-> "per_line_and", data |-> data, conditions |-> conditions ] :
        data \in PerLineDocs, conditions \in ClauseLists }
    \cup { ThreeLineCall }

CallPerLineAnd ==
    /\ ~Returned
    /\ call.fn = "per_line_and"
    /\ ret' = Some(evaluate(Combinator("per_line_and", call.conditions), call.data))
    /\ UNCHANGED << call, NonCallVars >>

\* The values a Compare's field resolves to, each with its path
FieldValues(cmp, data) ==
    LET left == resolve_field_with_details(cmp, data).result
    IN  IF IsSome(left)
        THEN { [ value |-> Unwrap(left).values[i], path |-> Unwrap(left).paths[i] ] :
                 i \in 1..Len(Unwrap(left).values) }
        ELSE {}

ValueSatisfies(cmp, v) ==
    IF IsSome(cmp.computed) THEN ComputedSat(cmp.op, Unwrap(cmp.value), v)
    ELSE CompareSat(cmp.op, cmp.value, v)

\* A clause is satisfied at line L: a Compare by a value of its field at L, or
\* by a value that carries no line (x12 and scalar fields); an Or by one of its
\* disjuncts at L
RECURSIVE SatisfiedAt(_, _, _)
SatisfiedAt(clause, data, L) ==
    IF clause.kind = "or"
    THEN \E i \in 1..Len(clause.args) : SatisfiedAt(clause.args[i], data, L)
    ELSE \E fv \in FieldValues(clause, data) :
           /\ ValueSatisfies(clause, fv.value)
           /\ Len(fv.path) = 3 => fv.path[3] = L

SomeLineSatisfiesAll(conditions, data) ==
    \E L \in LineValues : \A i \in 1..Len(conditions) : SatisfiedAt(conditions[i], data, L)

ReturnedFrom(fn) == Returned /\ call.fn = fn

\* C17: per_line_and returns true iff some line L satisfies every clause,
\* line-agnostic clauses (x12 and scalar comparisons) counting as satisfied at
\* every L.
C17_PerLineAnd ==
    ReturnedFrom("per_line_and") =>
        (Unwrap(ret).matched <=> SomeLineSatisfiesAll(call.conditions, call.data))

\* On lists of comparisons of plain fields with a literal the equivalence holds
PerLineAndOnPlainFields ==
    (ReturnedFrom("per_line_and")
       /\ \A i \in 1..Len(call.conditions) : call.conditions[i] \in PlainClauses) =>
        (Unwrap(ret).matched <=> SomeLineSatisfiesAll(call.conditions, call.data))

\* per_line_and never returns true without a line that satisfies every clause
PerLineAndSound ==
    (ReturnedFrom("per_line_and") /\ Unwrap(ret).matched) =>
        SomeLineSatisfiesAll(call.conditions, call.data)

\* The spec's example: home >= 2000 only at -0.5, away >= 2000 only at 0.5 is no match
PerLineExampleRejected ==
    /\ ReturnedFrom("per_line_and")
    /\ call.conditions = << HomeAtLeast, AwayAtLeast >>
    /\ call.data.bookmakers["B"].current.ah_h = << 2100, 1900 >>
    /\ call.data.bookmakers["B"].current.ah_a = << 1900, 2100 >>
    /\ ~Unwrap(ret).matched

\* The lines the match trace of the returned call has entries at, one per entry
TraceLinesOf(traces) ==
    [ i \in 1..Len(traces) |-> extract_line_from_match_path(traces[i].path) ]

\* C33: when a per_line_and evaluates to true, the match trace it leaves
\* contains only entries for lines at which every clause is satisfied; for
\* the three-line example the trace is exactly two entries, both at -0.25.
C33_TraceOnlyCommonLines ==
    (ReturnedFrom("per_line_and") /\ Unwrap(ret).matched) =>
        /\ \A i \in 1..Len(Unwrap(ret).traces) :
              IsSome(TraceLinesOf(Unwrap(ret).traces)[i]) =>
                \A k \in 1..Len(call.conditions) :
                   SatisfiedAt(call.conditions[k], call.data,
                               Unwrap(TraceLinesOf(Unwrap(ret).traces)[i]))
        /\ call = ThreeLineCall =>
              TraceLinesOf(Unwrap(ret).traces) = << Some(-25), Some(-25) >>

\* What evaluate_per_line_and leaves for the example: the entries of both
\* clauses at every line each of them holds at
ThreeLineTraceKeepsAll ==
    /\ ReturnedFrom("per_line_and")
    /\ call = ThreeLineCall
    /\ Unwrap(ret).matched
    /\ TraceLinesOf(Unwrap(ret).traces) = << Some(-25), Some(0), Some(-50), Some(-25) >>

\* Every entry of the trace is at a line at which the clause that recorded it
\* holds, and every line that satisfies all clauses has an entry
TraceHoldsPerClause ==
    (ReturnedFrom("per_line_and") /\ Unwrap(ret).matched
       /\ \A k \in 1..Len(call.conditions) : call.conditions[k] \in PlainClauses) =>
        /\ \A i \in 1..Len(Unwrap(ret).traces) :
              IsSome(TraceLinesOf(Unwrap(ret).traces)[i]) =>
                \E k \in 1..Len(call.conditions) :
                   SatisfiedAt(call.conditions[k], call.data,
                               Unwrap(TraceLinesOf(Unwrap(ret).traces)[i]))
        /\ \A L \in LineValues :
              ((\A k \in 1..Len(call.conditions) : SatisfiedAt(call.conditions[k], call.data, L))
                 /\ \E k \in 1..Len(call.conditions) : call.conditions[k] # X12AtLeast) =>
                \E i \in 1..Len(Unwrap(ret).traces) :
                   TraceLinesOf(Unwrap(ret).traces)[i] = Some(L)

\* ---- history(field_path, age_ms) under a subscription ----

\* The timestamp, in milliseconds, of a snapshot taken age_ms before the current one
AtAge(age_ms) == 100000 - age_ms

\* A snapshot of x12_h taken age_ms before the current one
AgedSnapshot(age_ms, x12_h) ==
    [ OddsSnapshot_default EXCEPT !.timestamp = AtAge(age_ms), !.x12_h = Some(x12_h) ]

\* The spec's example: snapshots aged 10 s, 40 s and 70 s, newest first
ExampleHistory ==
    << AgedSnapshot(10000, 2020), AgedSnapshot(40000, 2100), AgedSnapshot(70000, 2200) >>

\* The example history and the histories that lack some of its snapshots
Histories ==
    { SelectSeq(ExampleHistory, LAMBDA snap : snap.timestamp \in keep) :
        keep \in SUBSET { AtAge(10000), AtAge(40000), AtAge(70000) } }

HistoryAges == { 5000, 30000, 60000, 90000 }

HistoryDoc(current_x12_h, history) ==
    FilterDoc([ b \in { "B" } |->
                  [ BookmakerOdds_default EXCEPT
                      !.current = [ OddsSnapshot_default EXCEPT
                                      !.timestamp = AtAge(0), !.x12_h = current_x12_h ],
                      !.history = history ] ])

HistoryCalls ==
    { [ fn |-> "history", data |-> HistoryDoc(current_x12_h, history), age_ms |-> age_ms ] :
        current_x12_h \in { None, Some(2000) }, history \in Histories, age_ms \in HistoryAges }

\* The client's filter: the Compare "history(bookmakers.B.x12_h, age_ms) exists"
HistoryFilter(age_ms) ==
    ComputedCompareExpr(ComputedValue("history", FieldOperand("B", "x12_h"),
                                      LiteralOperand(age_ms)), "exists", None)

\* handle_socket's filter check on a broadcast message of a subscribed client:
\* the context is FilterContext::new(&value); beside the verdict the step
\* keeps what the history operand resolved to
CallHistory ==
    /\ ~Returned
    /\ call.fn = "history"
    /\ LET expr == HistoryFilter(call.age_ms)
           r    == evaluate(expr, call.data)
       IN  ret' = Some([ matched |-> r.matched, traces |-> r.traces,
                         operand |-> resolve_field_with_details(expr, call.data).result ])
    /\ UNCHANGED << call, NonCallVars >>

\* The history snapshots of the bookmaker whose age relative to current is <= age_ms
Eligible(data, bookmaker, age_ms) ==
    LET slot == data.bookmakers[bookmaker]
    IN  { i \in 1..Len(slot.history) :
            slot.current.timestamp - slot.history[i].timestamp <= age_ms }

\* The oldest of them
OldestEligible(data, bookmaker, age_ms) ==
    LET slot == data.bookmakers[bookmaker]
    IN  CHOOSE i \in Eligible(data, bookmaker, age_ms) :
          \A j \in Eligible(data, bookmaker, age_ms) :
            slot.history[i].timestamp <= slot.history[j].timestamp

\* C18: under a subscription, history(field_path, age_ms) resolves to the
\* field's value in the oldest cached history snapshot of the bookmaker whose
\* age relative to current is <= age_ms (the 40 s snapshot among 10 s, 40 s
\* and 70 s with age_ms = 60000).
C18_HistoryOperand ==
    (ReturnedFrom("history")
       /\ IsSome(call.data.bookmakers["B"].current.x12_h)
       /\ Eligible(call.data, "B", call.age_ms) # {}) =>
        /\ IsSome(Unwrap(ret).operand)
        /\ Unwrap(Unwrap(ret).operand).values =
             << Frac(Unwrap(call.data.bookmakers["B"].history[
                              OldestEligible(call.data, "B", call.age_ms)].x12_h), 1) >>

\* What the evaluation does instead: without a history provider in the
\* context the operand is absent and the Compare is false, whatever the history
HistoryOperandAbsent ==
    ReturnedFrom("history") => (Unwrap(ret).operand = None /\ ~Unwrap(ret).matched)

\* ---- vector aggregates ----

\* Bookmaker "B" on two lines, "C" on the first line or on both; 900 is below
\* the 1000 that odds must exceed to count
VectorDocs ==
    { FilterDoc([ b \in { "B", "C" } |->
                    IF b = "B" THEN FilterSlot(BothLines, b_ah_h, << 1950, 1850 >>, None)
                    ELSE FilterSlot(c_lines, c_ah_h, << >>, None) ]) :
        b_ah_h \in { << 2100, 1900 >>, << 2100, 900 >>, << 0, 1900 >> },
        c_lines \in { << -50 >>, BothLines },
        c_ah_h \in { << 2000, 2050 >>, << 2000 >>, << 900, 2050 >> } }

\* "bookmakers.D.ah_h" names a bookmaker no document has
VectorSources ==
    { FieldOperand("B", "ah_h"), FieldOperand("B", "ah"), FieldOperand("C", "ah_h"),
      FieldOperand("D", "ah_h") }

SourceLists ==
    { << src >> : src \in VectorSources }
      \cup { << s1, s2 >> : s1 \in VectorSources, s2 \in VectorSources }

VectorFunctions == { "max_per_line", "avg_per_line", "count_per_line", "min" }

VectorCalls ==
    { [ fn |-> "vector", data |-> data,
        vec |-> VectorExpr(function, sources, Some("v")) ] :
        data \in VectorDocs, function \in VectorFunctions, sources \in SourceLists }

CallVector ==
    /\ ~Returned
    /\ call.fn = "vector"
    /\ ret' = Some(evaluate_vector(call.vec, call.data))
    /\ UNCHANGED << call, NonCallVars >>

\* A source has a valid value at line L: it resolves, and one of its values
\* at L is above 1000
ValidAt(source, data, L) ==
    LET rv == resolve_field(source, data)
    IN  /\ IsSome(rv)
        /\ \E i \in 1..Len(Unwrap(rv).values) :
             /\ Unwrap(rv).values[i] > 1000
             /\ extract_line_from_path(Unwrap(rv).paths[i]) = Some(L)

\* Line L is retained: the variable is bound and carries a value labelled L
RetainedLine(L) ==
    /\ Unwrap(ret).matched
    /\ \E i \in 1..Len(Unwrap(Unwrap(ret).var).paths) : Unwrap(Unwrap(ret).var).paths[i][3] = L

PerLineCall == ReturnedFrom("vector") /\ call.vec.function \in PerLineOps

\* C19: a per-line vector function retains (aggregates and binds) a line iff
\* the line appears with a valid value in every source; a line missing from a
\* source is dropped however many values the other sources have at it.
C19_PerLineIntersection ==
    PerLineCall =>
        \A L \in LineValues :
            RetainedLine(L) <=>
              \A i \in 1..Len(call.vec.sources) : ValidAt(call.vec.sources[i], call.data, L)

\* A source that gives at most one value per line
SingleValued(source, data) ==
    LET rv == resolve_field(source, data)
    IN  /\ IsSome(rv)
        /\ \A i, j \in 1..Len(Unwrap(rv).paths) :
             Unwrap(rv).paths[i][3] = Unwrap(rv).paths[j][3] => i = j

\* Where every source resolves and has one value per line the retained lines
\* are the intersection
PerLineIntersectionOnSingleValued ==
    (PerLineCall
       /\ \A i \in 1..Len(call.vec.sources) : SingleValued(call.vec.sources[i], call.data)) =>
        \A L \in LineValues :
            RetainedLine(L) <=>
              \A i \in 1..Len(call.vec.sources) : ValidAt(call.vec.sources[i], call.data, L)

\* A line of every source is always retained
PerLineKeepsCommonLines ==
    PerLineCall =>
        \A L \in LineValues :
            (\A i \in 1..Len(call.vec.sources) : ValidAt(call.vec.sources[i], call.data, L))
              => RetainedLine(L)

\* ---- evaluation of expressions that cannot be resolved ----

EvalSlot(ah_h, ah_a, x12_h, x12_x, x12_a) ==
    [ BookmakerOdds_default EXCEPT
        !.current = [ OddsSnapshot_default EXCEPT
                        !.ah_lines = BothLines, !.ah_h = ah_h, !.ah_a = ah_a,
                        !.x12_h = x12_h, !.x12_x = x12_x, !.x12_a = x12_a ] ]

\* Bookmakers "B" and "C"; zero odds stand for outcomes without a price
EvalDocs ==
    { FilterDoc([ b \in { "B", "C" } |->
                    IF b = "B" THEN EvalSlot(b_ah_h, b_ah_a, b_x12_h, Some(3000), Some(4000))
                    ELSE EvalSlot(<< 2000, 2000 >>, << 2000, 2000 >>,
                                  Some(2000), c_x12_x, c_x12_a) ]) :
        b_ah_h \in { << 2100, 1900 >>, << 0, 1900 >>, << 0, 0 >> },
        b_ah_a \in { << 0, 0 >>, << 1950, 0 >> },
        b_x12_h \in { None, Some(2100), Some(1900) },
        c_x12_x \in { Some(0), Some(3000) },
        c_x12_a \in { Some(0), Some(4100) } }

\* A clause that does resolve, and matches when B's home price is at least 2000
GoodClause == CompareExpr("B", "x12_h", "gte", Some(2000))

\* Clauses that cannot be resolved: a bookmaker the document lacks, a field
\* it lacks, a literal of the wrong type, a division by the literal zero
NoBookmaker   == CompareExpr("D", "x12_x", "gte", Some(2000))
NoField       == CompareExpr("B", "nope", "exists", None)
Mistyped      == MistypedCompareExpr("B", "x12_x", "eq")
DividedByZero == ComputedCompareExpr(ComputedValue("divide", FieldOperand("B", "x12_x"),
                                                   LiteralOperand(0)), "gte", Some(0))
FaultyClauses == { NoBookmaker, NoField, Mistyped, DividedByZero }

\* 4000 / bookmakers.B.ah >= 2: one operand pair per entry of B's aggregate
ScalarOverLines ==
    ComputedCompareExpr(ComputedValue("divide", LiteralOperand(4000), FieldOperand("B", "ah")),
                        "gte", Some(2))

\* bookmakers.B.x12 / bookmakers.C.x12 >= 1: one operand pair per outcome
X12Ratio ==
    ComputedCompareExpr(ComputedValue("divide", FieldOperand("B", "x12"), FieldOperand("C", "x12")),
                        "gte", Some(1))

EvalExprs ==
    { GoodClause, ScalarOverLines, X12Ratio } \cup FaultyClauses
      \cup { Combinator("or", << bad, GoodClause >>) : bad \in FaultyClauses }
      \cup { Combinator("and", << GoodClause, bad >>) : bad \in FaultyClauses }
      \cup { Combinator("not", << bad >>) : bad \in FaultyClauses }
      \cup { Combinator("per_line_and", << bad, GoodClause >>) : bad \in FaultyClauses }

EvalCalls == { [ fn |-> "evaluate", data |-> data, expr |-> expr ] : data \in EvalDocs, expr \in EvalExprs }

\* evaluate(expr, &mut ctx) on a fresh context; beside the verdict and the
\* traces the step keeps what a Compare's field resolved to
CallEvaluate ==
    /\ ~Returned
    /\ call.fn = "evaluate"
    /\ LET r == evaluate(call.expr, call.data)
       IN  ret' = Some([ matched |-> r.matched, traces |-> r.traces,
                         operand |-> IF call.expr.kind = "compare"
                                     THEN resolve_field_with_details(call.expr, call.data).result
                                     ELSE None ])
    /\ UNCHANGED << call, NonCallVars >>

GoodHolds(data) ==
    /\ IsSome(data.bookmakers["B"].current.x12_h)
    /\ Unwrap(data.bookmakers["B"].current.x12_h) >= 2000

\* numerator / d for the divisors d that are not zero, in order
RECURSIVE QuotientsBy(_, _, _)
QuotientsBy(numerators, divisors, i) ==
    IF i > Len(divisors) THEN << >>
    ELSE (IF divisors[i] # 0 THEN << Frac(numerators[i], divisors[i]) >> ELSE << >>)
         \o QuotientsBy(numerators, divisors, i + 1)

\* The operand pairs of ScalarOverLines and of X12Ratio in a document
LineDivisors(data) ==
    data.bookmakers["B"].current.ah_h \o data.bookmakers["B"].current.ah_a

X12Of(data, bookmaker) ==
    << Unwrap(data.bookmakers[bookmaker].current.x12_h),
       Unwrap(data.bookmakers[bookmaker].current.x12_x),
       Unwrap(data.bookmakers[bookmaker].current.x12_a) >>

ExpectedQuotients ==
    IF call.expr = ScalarOverLines
    THEN QuotientsBy([ i \in 1..4 |-> Unwrap(ScalarOverLines.computed).left.number ],
                     LineDivisors(call.data), 1)
    ELSE QuotientsBy(X12Of(call.data, "B"), X12Of(call.data, "C"), 1)

\* The operand is the sequence qs of quotients, absent when qs is empty
OperandIs(qs) ==
    IF qs = << >> THEN Unwrap(ret).operand = None /\ ~Unwrap(ret).matched
    ELSE IsSome(Unwrap(ret).operand) /\ Unwrap(Unwrap(ret).operand).values = qs

AbsentClauseSkipped ==
    /\ ReturnedFrom("evaluate")
    /\ call.expr = Combinator("or", << DividedByZero, GoodClause >>)
    /\ Unwrap(ret).matched

FilterCalls == PerLineCalls \cup HistoryCalls \cup VectorCalls \cup EvalCalls

InitFilter ==
    /\ InitNoCall
    /\ call \in FilterCalls
    /\ ret = None

NextFilter == CallPerLineAnd \/ CallHistory \/ CallVector \/ CallEvaluate

SpecFilter == InitFilter /\ [][NextFilter]_vars

-----------------------------------------------------------------------------
(* SpecIngest: the processor's ingest path.  The TCP listener accepts       *)
(* connections and spawns a reader per connection; the readers and the      *)
(* database listener publish into the update channel; the update-apply      *)
(* task of main() receives from it, applies under the cache write lock and  *)
(* broadcasts; a session that connects sends its snapshot under the cache   *)
(* read lock.  The update receiver was subscribed before the first publish, *)
(* and the bounds keep the channel far below its capacity.                  *)

MaxConnections == 2
MaxLinesPerConn == 2
MaxDbUpdates == 1
MaxSnapshots == 2

IngestBookmakers == { "A", "B" }

\* The cache after hydration: two fixtures
IngestHydrated ==
    apply_update(apply_update(Cache_new(2),
                              [ OddsUpdate_default(1, "A", 1) EXCEPT !.x12 = Some(X12High) ]),
                 [ OddsUpdate_default(2, "A", 1) EXCEPT !.x12 = Some(X12High) ])

\* The lines a connection may carry at position k: an update of fixture 1 by
\* some bookmaker, or a line that is not an OddsUpdate
IngestLines(k) ==
    { [ kind |-> "update",
        update |-> [ OddsUpdate_default(1, b, k + 1) EXCEPT !.x12 = Some(X12Low) ] ] :
        b \in IngestBookmakers }
    \cup { [ kind |-> "malformed", update |-> OddsUpdate_default(0, "", 0) ] }

\* serde_json::from_str::<OddsUpdate>(&line)
parse_line(line) == IF line.kind = "update" THEN Some(line.update) ELSE None

\* A message of the update channel with the place it came from: << c, k >> is
\* line k of connection c, << 0, k >> the k-th database notification
Published(origin, odds_update) == [ origin |-> origin, update |-> odds_update ]

\* tx.send(update): the channel keeps the updates in the order they were sent
channel_send(channel, message) == Append(channel, message)

\* update_rx.recv(): the oldest update not yet received, and the rest
recv_newest(channel) ==
    [ message |-> channel[Len(channel)], rest |-> SubSeq(channel, 1, Len(channel) - 1) ]

channel_recv(channel) == [ message |-> Head(channel), rest |-> Tail(channel) ]

TcpConn(state, lines, ended) == [ state |-> state, lines |-> lines, ended |-> ended ]

\* A reader that would end on a line it cannot parse
conn_closed_by_bad_line(conn, line) ==
    IF line.kind = "malformed" THEN TcpConn("closed", Append(conn.lines, line), "parse")
    ELSE TcpConn(conn.state, Append(conn.lines, line), conn.ended)

\* The connection after the reader took a line: the loop goes on whether the
\* line parsed or not
conn_after_line(conn, line) == TcpConn(conn.state, Append(conn.lines, line), conn.ended)

InitIngest ==
    /\ InitCacheVars(IngestHydrated)
    /\ InitHistVars /\ InitWsVars /\ InitBookVars
    /\ InitMonacoVars(None) /\ InitPinnacleVars /\ InitCallVars
    /\ InitNetVars

NonIngestVars == << histVars, bookVars, monacoVars, pinnacleVars, callVars, rx_missed,
                   clientVars, streamVars >>
SessionVars == << pending_ws, client_state, send_task, handled, verdict, epoch, lastStep >>

\* start_tcp_listener: listener.accept() returned a connection and its reader
\* was spawned
AcceptConnection ==
    /\ Len(tcp_conns) < MaxConnections
    /\ tcp_conns' = Append(tcp_conns, TcpConn("open", << >>, "none"))
    /\ UNCHANGED << cacheVars, nUpdates, update_channel, apply_task, cache_lock,
                    snapshot_task, applied_log, rx, socket, SessionVars, NonIngestVars >>

\* start_tcp_listener: listener.accept() failed; the error is logged and the
\* loop accepts again
AcceptFailed ==
    /\ Len(tcp_conns) < MaxConnections
    /\ tcp_conns' = Append(tcp_conns, TcpConn("refused", << >>, "accept"))
    /\ UNCHANGED << cacheVars, nUpdates, update_channel, apply_task, cache_lock,
                    snapshot_task, applied_log, rx, socket, SessionVars, NonIngestVars >>

\* The reader of connection c: lines.next_line() gave a line; an update is
\* sent on the channel, anything else is logged and dropped
ReadLine ==
    /\ \E c \in 1..Len(tcp_conns) :
          /\ tcp_conns[c].state = "open"
          /\ Len(tcp_conns[c].lines) < MaxLinesPerConn
          /\ \E line \in IngestLines(Len(tcp_conns[c].lines) + 1) :
                /\ tcp_conns' = [ tcp_conns EXCEPT ![c] = conn_after_line(@, line) ]
                /\ update_channel' =
                     IF IsSome(parse_line(line))
                     THEN channel_send(update_channel,
                                       Published(<< c, Len(tcp_conns[c].lines) + 1 >>,
                                                 Unwrap(parse_line(line))))
                     ELSE update_channel
    /\ UNCHANGED << cacheVars, nUpdates, apply_task, cache_lock, snapshot_task,
                    applied_log, rx, socket, SessionVars, NonIngestVars >>

\* The reader of connection c: lines.next_line() gave the end of the stream
\* or an error, and the reader ends
ConnectionEnds ==
    /\ \E c \in 1..Len(tcp_conns), how \in { "eof", "error" } :
          /\ tcp_conns[c].state = "open"
          /\ tcp_conns' = [ tcp_conns EXCEPT ![c] = TcpConn("closed", @.lines, how) ]
    /\ UNCHANGED << cacheVars, nUpdates, update_channel, apply_task, cache_lock,
                    snapshot_task, applied_log, rx, socket, SessionVars, NonIngestVars >>

DbPublished ==
    Cardinality({ i \in 1..Len(applied_log) : applied_log[i].origin[1] = 0 })
    + Cardinality({ i \in 1..Len(update_channel) : update_channel[i].origin[1] = 0 })
    + (IF IsSome(apply_task.update) /\ Unwrap(apply_task.update).origin[1] = 0 THEN 1 ELSE 0)

\* start_db_listener: a notification of another bookmaker's row; the row is
\* fetched and sent on the channel
DbNotification ==
    /\ DbPublished < MaxDbUpdates
    /\ \E b \in IngestBookmakers :
          update_channel' =
            channel_send(update_channel,
                         Published(<< 0, DbPublished + 1 >>,
                                   [ OddsUpdate_default(1, b, DbPublished + 1)
                                       EXCEPT !.x12 = Some(X12High) ]))
    /\ UNCHANGED << cacheVars, nUpdates, tcp_conns, apply_task, cache_lock, snapshot_task,
                    applied_log, rx, socket, SessionVars, NonIngestVars >>

\* main(): update_rx.recv() gave the next update
ApplyTaskRecv ==
    /\ apply_task.pc = "recv"
    /\ update_channel # << >>
    /\ apply_task' = [ pc |-> "write", update |-> Some(channel_recv(update_channel).message) ]
    /\ update_channel' = channel_recv(update_channel).rest
    /\ UNCHANGED << cacheVars, nUpdates, tcp_conns, cache_lock, snapshot_task,
                    applied_log, rx, socket, SessionVars, NonIngestVars >>

\* RwLock::write is granted when nobody holds the lock
write_available(lock) == lock.readers = {} /\ ~IsSome(lock.writer)

\* RwLock::read is granted when no writer holds the lock or waits for it
read_available(lock, writer_waiting) == ~IsSome(lock.writer) /\ ~writer_waiting

\* main(): process_cache.write().await is granted; the update is applied,
\* the lock released and the odds_update message broadcast
ApplyTaskWrite ==
    /\ apply_task.pc = "write"
    /\ write_available(cache_lock)
    /\ CacheApply(Unwrap(apply_task.update).update)
    /\ applied_log' = Append(applied_log, Unwrap(apply_task.update))
    /\ rx' = Append(rx, WsMessage("odds_update", Unwrap(apply_task.update).update.fixture_id,
                                  Unwrap(apply_task.update).update.timestamp,
                                  cache'.fixtures[Unwrap(apply_task.update).update.fixture_id].bookmakers,
                                  None))
    /\ apply_task' = ApplyTask_idle
    /\ UNCHANGED << tcp_conns, update_channel, cache_lock, snapshot_task, socket,
                    SessionVars, NonIngestVars >>

\* handle_socket -> send_filtered_snapshot(.., None): a session connects, the
\* cache read lock and the sender lock are taken, the fixtures are walked in
\* the map's iteration order
SnapshotStart ==
    /\ snapshot_task.pc = "idle"
    /\ snapshot_task.taken < MaxSnapshots
    /\ read_available(cache_lock, apply_task.pc = "write")
    /\ \E order \in IterationOrders(DOMAIN cache.fixtures) :
          snapshot_task' = [ pc |-> "sending", left |-> order,
                             taken |-> snapshot_task.taken + 1 ]
    /\ cache_lock' = [ cache_lock EXCEPT !.readers = @ \cup { "snapshot" } ]
    /\ socket' = << >>
    /\ UNCHANGED << cacheVars, nUpdates, tcp_conns, update_channel, apply_task,
                    applied_log, rx, SessionVars, NonIngestVars >>

\* send_filtered_snapshot: one s.send(..).await completed, with the next
\* fixture's odds_snapshot written or with an error that ends the loop; the
\* read lock is released when the function returns after the loop
SnapshotSend ==
    /\ snapshot_task.pc = "sending"
    /\ \E ok \in BOOLEAN :
          LET left == IF ok THEN Tail(snapshot_task.left) ELSE << >>
          IN  /\ socket' = IF ok THEN << to_ws_message(cache.fixtures[Head(snapshot_task.left)],
                                                       "odds_snapshot") >>
                           ELSE << >>
              /\ snapshot_task' = [ snapshot_task EXCEPT
                                      !.pc = IF left = << >> THEN "idle" ELSE "sending",
                                      !.left = left ]
              /\ cache_lock' = IF left = << >>
                               THEN [ cache_lock EXCEPT !.readers = @ \ { "snapshot" } ]
                               ELSE cache_lock
    /\ UNCHANGED << cacheVars, nUpdates, tcp_conns, update_channel, apply_task,
                    applied_log, rx, SessionVars, NonIngestVars >>

NextIngest ==
    \/ AcceptConnection
    \/ AcceptFailed
    \/ ReadLine
    \/ ConnectionEnds
    \/ DbNotification
    \/ ApplyTaskRecv
    \/ ApplyTaskWrite

SpecIngest == InitIngest /\ [][NextIngest]_vars

\* SpecLock: the update-apply task fed by the database listener, and a session
\* that connects and sends its snapshot, around the cache lock
NextLock ==
    \/ DbNotification
    \/ ApplyTaskRecv
    \/ ApplyTaskWrite
    \/ SnapshotStart
    \/ SnapshotSend

SpecLock == InitIngest /\ [][NextLock]_vars

SameSlot(a, b) ==
    a.update.fixture_id = b.update.fixture_id /\ a.update.bookmaker = b.update.bookmaker

\* C21: within one (fixture, bookmaker), the updates applied to the cache that
\* came from one TCP connection were applied in the order their lines arrived on
\* it, whatever other connections and the database listener published in between.
C21_ArrivalOrder ==
    \A i, j \in 1..Len(applied_log) :
        /\ i < j
        /\ applied_log[i].origin[1] >= 1
        /\ applied_log[i].origin[1] = applied_log[j].origin[1]
        /\ SameSlot(applied_log[i], applied_log[j])
        => applied_log[i].origin[2] < applied_log[j].origin[2]

\* C21 witness: two updates of one slot from one connection were applied with
\* an update of the same slot from another producer applied between them
C21_Witness ==
    \E i, k, j \in 1..Len(applied_log) :
        /\ i < k /\ k < j
        /\ applied_log[i].origin[1] >= 1
        /\ applied_log[i].origin[1] = applied_log[j].origin[1]
        /\ applied_log[k].origin[1] # applied_log[i].origin[1]
        /\ SameSlot(applied_log[i], applied_log[j])
        /\ SameSlot(applied_log[i], applied_log[k])

\* Every update published so far, oldest first: those applied, the one the
\* apply task holds, those waiting in the channel
AllPublished == applied_log \o apply_task.update \o update_channel

PublishedOf(c) == SelectSeq(AllPublished, LAMBDA m : m.origin[1] = c)

\* The lines of a connection that parse, as the channel messages they make
RECURSIVE ParsedLines(_, _, _)
ParsedLines(c, lines, k) ==
    IF k > Len(lines) THEN << >>
    ELSE (IF IsSome(parse_line(lines[k]))
          THEN << Published(<< c, k >>, Unwrap(parse_line(lines[k]))) >>
          ELSE << >>) \o ParsedLines(c, lines, k + 1)

\* C27: on every accepted connection the lines that parse as an update have
\* been published on the update channel, all of them and in line order; a
\* line that fails to parse closes nothing (a connection is closed only by the
\* end of its stream or a read error); and once a connection has ended with an
\* error the listener can still accept the next one.
C27_LinesPublished ==
    /\ \A c \in 1..Len(tcp_conns) :
          /\ PublishedOf(c) = ParsedLines(c, tcp_conns[c].lines, 1)
          /\ tcp_conns[c].state = "closed" => tcp_conns[c].ended \in { "eof", "error" }
    /\ (\E c \in 1..Len(tcp_conns) : tcp_conns[c].ended = "error")
         /\ Len(tcp_conns) < MaxConnections
       => ENABLED AcceptConnection

\* C27 witness: the only connection so far carried a malformed line and then
\* an update, which was published, and ended with an error
C27_Witness ==
    /\ Len(tcp_conns) = 1
    /\ tcp_conns[1].ended = "error"
    /\ Len(tcp_conns[1].lines) = 2
    /\ tcp_conns[1].lines[1].kind = "malformed"
    /\ tcp_conns[1].lines[2].kind = "update"
    /\ Len(PublishedOf(1)) = 1

\* C23: whenever the update-apply task asks for the cache write lock it can
\* take it: no WebSocket send to a client, a snapshot to a slow client
\* included, makes it wait.
C23_IngestNeverBlocked ==
    apply_task.pc = "write" => write_available(cache_lock)

\* The apply task waits for the write lock only while a snapshot is being sent
BlockedOnlyBySnapshot ==
    apply_task.pc = "write" /\ ~write_available(cache_lock) => snapshot_task.pc = "sending"

\* A received update waits for the lock while a snapshot still has a fixture to send
ApplyWaitsForSnapshot ==
    /\ apply_task.pc = "write"
    /\ "snapshot" \in cache_lock.readers
    /\ Len(snapshot_task.left) = 2

-----------------------------------------------------------------------------
(* SpecLag: SpecWS with the broadcast channel's capacity.  A receiver that  *)
(* has not taken a message before the channel wraps over it has lagged:     *)
(* its next recv() returns Err(Lagged) instead of a message.  The capacity  *)
(* is scaled down so that the updates of the model can overrun it.          *)

WsChannelCapacity == 1

\* tx.send(msg) as the session's receiver sees it: [rx, missed].  A full
\* channel drops its oldest message; a dropped receiver queues nothing
broadcast_send(queue, missed, msg, subscribed) ==
    IF ~subscribed THEN [ rx |-> queue, missed |-> missed ]
    ELSE IF Len(queue) >= WsChannelCapacity
    THEN [ rx |-> Append(Tail(queue), msg), missed |-> missed + 1 ]
    ELSE [ rx |-> Append(queue, msg), missed |-> missed ]

\* main(): process_ws_tx.send(ws_msg) into the bounded channel
LagBroadcast ==
    /\ IsSome(pending_ws)
    /\ rx' = broadcast_send(rx, rx_missed, Unwrap(pending_ws), send_task.pc # "ended").rx
    /\ rx_missed' = broadcast_send(rx, rx_missed, Unwrap(pending_ws),
                                   send_task.pc # "ended").missed
    /\ pending_ws' = None
    /\ socket' = << >>
    /\ lastStep' = "broadcast"
    /\ UNCHANGED << cacheVars, nUpdates, client_state, send_task, handled, verdict, epoch,
                    histVars, bookVars, monacoVars, pinnacleVars, callVars, ingestVars,
                    clientVars, streamVars >>

\* send task: rx.recv() returned Err(Lagged(n)); `Err(_) => break` leaves the
\* loop, the task ends and its receiver is dropped
SendTaskLagged ==
    /\ send_task.pc = "recv"
    /\ rx_missed > 0
    /\ send_task' = [ SendTask_idle EXCEPT !.pc = "ended" ]
    /\ rx' = << >>
    /\ socket' = << >>
    /\ lastStep' = "lagged"
    /\ UNCHANGED << cacheVars, nUpdates, pending_ws, client_state, handled, verdict, epoch,
                    rx_missed, histVars, bookVars, monacoVars, pinnacleVars, callVars,
                    ingestVars, clientVars, streamVars >>

\* send task: rx.recv() returned a message (the receiver has missed nothing)
SendTaskRecvInTime == rx_missed = 0 /\ SendTaskRecv

NextLag ==
    \/ ApplyTaskApply
    \/ LagBroadcast
    \/ SendTaskLagged
    \/ SendTaskRecvInTime
    \/ SendTaskSend
    \/ SendTaskRemoval
    \/ HandleClientRequest

SpecLag == InitWS /\ [][NextLag]_vars

\* C22: a session whose receiver fell behind and missed messages has lost
\* those messages only: its send task is still receiving, so that the next
\* update of a fixture that matches its filter is delivered to it.
C22_LaggedKeepsReceiving ==
    rx_missed > 0 => send_task.pc # "ended"

\* What the send task does instead: it ends on the first recv() after a miss,
\* and only then
SendTaskEndsOnLag ==
    /\ send_task.pc = "ended" => rx_missed > 0 /\ rx = << >>
    /\ lastStep \in { "recv", "send", "removal" } => rx_missed = 0

-----------------------------------------------------------------------------
(* SpecClient: odds-engine processor_client.rs.  Several tasks call         *)
(* ProcessorClient::send, each with its own message; connecting and         *)
(* writing succeed or fail as the peer decides.  A connection is named by   *)
(* the number of the connect that made it, and wire[c] is what has been     *)
(* written on it in full.                                                   *)

MaxSends == 3

Sender(pc, result) == [ pc |-> pc, result |-> result ]

Wire(written, failed) == [ written |-> written, failed |-> failed ]

\* ProcessorClient::connect under the stream lock: [stream, ok].  An open
\* stream is kept; otherwise TcpStream::connect either gives a new connection
\* or fails and leaves the stream None
connect(stream, connected, next_connection) ==
    IF IsSome(stream) THEN [ stream |-> stream, ok |-> TRUE ]
    ELSE IF connected THEN [ stream |-> Some(next_connection), ok |-> TRUE ]
    ELSE [ stream |-> None, ok |-> FALSE ]

\* A client that would keep its stream after a failed write
stream_kept(stream) == stream

\* send, the Err arm of write_all: *stream_guard = None
stream_after_write_error(stream) == None

InitClient ==
    /\ InitCacheVars(Cache_new(1))
    /\ InitHistVars /\ InitWsVars /\ InitBookVars
    /\ InitMonacoVars(None) /\ InitPinnacleVars /\ InitCallVars
    /\ InitIngestVars /\ rx_missed = 0 /\ InitStreamVars
    /\ InitClientVars

NonClientVars == << cacheVars, nUpdates, histVars, wsVars, bookVars, monacoVars,
                   pinnacleVars, callVars, ingestVars, rx_missed, streamVars >>

\* A task calls send(&update): message number Len(senders) + 1
StartSend ==
    /\ Len(senders) < MaxSends
    /\ senders' = Append(senders, Sender("connect", "pending"))
    /\ UNCHANGED << client_stream, wire, NonClientVars >>

\* send: self.connect().await, the lock held from the check to the result;
\* on Err the send returns the error and the message is gone
SendConnect ==
    /\ \E s \in 1..Len(senders), connected \in BOOLEAN :
          LET c == connect(client_stream, connected, Cardinality(DOMAIN wire) + 1)
          IN  /\ senders[s].pc = "connect"
              /\ client_stream' = c.stream
              /\ wire' = IF IsSome(c.stream) /\ ~IsSome(client_stream)
                         THEN MapPut(wire, Unwrap(c.stream), Wire(<< >>, FALSE))
                         ELSE wire
              /\ senders' = [ senders EXCEPT ![s] =
                                IF c.ok THEN Sender("write", "pending")
                                ELSE Sender("done", "connect_error") ]
    /\ UNCHANGED NonClientVars

\* send: the lock is taken again and the line written with write_all; a failed
\* write drops the connection, and a stream another task dropped meanwhile
\* gives "No connection available"
SendWrite ==
    /\ \E s \in 1..Len(senders), written \in BOOLEAN :
          /\ senders[s].pc = "write"
          /\ IF ~IsSome(client_stream)
             THEN /\ senders' = [ senders EXCEPT ![s] = Sender("done", "no_connection") ]
                  /\ UNCHANGED << client_stream, wire >>
             ELSE IF written
             THEN /\ senders' = [ senders EXCEPT ![s] = Sender("done", "ok") ]
                  /\ wire' = [ wire EXCEPT ![Unwrap(client_stream)].written = Append(@, s) ]
                  /\ UNCHANGED client_stream
             ELSE /\ senders' = [ senders EXCEPT ![s] = Sender("done", "write_error") ]
                  /\ wire' = [ wire EXCEPT ![Unwrap(client_stream)].failed = TRUE ]
                  /\ client_stream' = stream_after_write_error(client_stream)
    /\ UNCHANGED NonClientVars

NextClient == StartSend \/ SendConnect \/ SendWrite

SpecClient == InitClient /\ [][NextClient]_vars

\* How many times message s has been written, over all connections
TimesWritten(s) ==
    SumSeq([ c \in 1..Cardinality(DOMAIN wire) |->
               Cardinality({ i \in 1..Len(wire[c].written) : wire[c].written[i] = s }) ])

\* C24: ProcessorClient.send neither queues nor retransmits.  A message whose
\* send ended with an error (no connection could be made, the write failed, or
\* the connection was gone) is on no connection, a message whose send
\* succeeded was written once and a message is never written twice; after a
\* failed write the stream is None, so the stream in use is never a connection
\* that failed and the next send has to connect anew.
C24_NoQueueNoRetransmit ==
    /\ \A s \in 1..Len(senders) :
          /\ TimesWritten(s) = (IF senders[s].result = "ok" THEN 1 ELSE 0)
          /\ senders[s].pc = "done" <=> senders[s].result # "pending"
    /\ IsSome(client_stream) =>
          /\ Unwrap(client_stream) \in DOMAIN wire
          /\ ~wire[Unwrap(client_stream)].failed
    /\ \A c \in DOMAIN wire : c < Cardinality(DOMAIN wire) => wire[c].failed

\* C24 witness: a write failed and its message was dropped, a later send made
\* a second connection and wrote its message there, and a send that found
\* the peer down ended with an error
C24_Witness ==
    /\ Cardinality(DOMAIN wire) = 2
    /\ wire[1].failed
    /\ Len(wire[2].written) = 1
    /\ \E s \in 1..Len(senders) : senders[s].result = "write_error"
    /\ \E s \in 1..Len(senders) : senders[s].result = "connect_error"

-----------------------------------------------------------------------------
(* SpecStream: odds-engine monaco/stream.rs.  start() loops over            *)
(* connect_and_listen(); a listening connection handles the frames the      *)
(* server sends.  Frames that change nothing (a ping answered, a pong, a    *)
(* binary frame, a re-authentication that was written) are left out.        *)

MaxFrames == 4
MaxRetries == 2

\* The text frames of the feed: a price or status message, the
\* authentication confirmation, and text that is not JSON
StreamTexts == { "MarketPriceUpdate", "AuthenticationUpdate", "malformed" }

\* serde_json::from_str::<Value>(&text)
parse_text(text) == IF text = "malformed" THEN None ELSE Some(text)

\* start(): the arms of `match self.connect_and_listen().await`
after_ok(ws) == [ ws EXCEPT !.pc = "backoff", !.retry_count = 0 ]
after_err(ws) == [ ws EXCEPT !.pc = "backoff", !.retry_count = @ + 1 ]

InitStream ==
    /\ InitCacheVars(Cache_new(1))
    /\ InitHistVars /\ InitWsVars /\ InitBookVars
    /\ InitMonacoVars(None) /\ InitPinnacleVars /\ InitCallVars
    /\ InitIngestVars /\ rx_missed = 0 /\ InitClientVars
    /\ InitStreamVars

NonStreamVars == << cacheVars, nUpdates, histVars, wsVars, bookVars, monacoVars,
                   pinnacleVars, callVars, ingestVars, rx_missed, clientVars >>

Handled(ws, kind) == [ ws EXCEPT !.last = [ kind |-> kind, retry_count |-> ws.retry_count ] ]

\* start() -> connect_and_listen(): the backoff has passed; connect_async and
\* send_auth succeed and the loop is entered, or one of them fails
StreamConnect ==
    /\ monaco_ws.pc = "backoff"
    /\ monaco_ws.retry_count < MaxRetries
    /\ monaco_ws.connection < MaxFrames
    /\ \E connected \in BOOLEAN :
          monaco_ws' = IF connected
                       THEN [ Handled(monaco_ws, "connect") EXCEPT
                                !.pc = "listening", !.connection = @ + 1,
                                !.subscribed = FALSE ]
                       ELSE after_err(Handled(monaco_ws, "connect"))
    /\ UNCHANGED << forwarded, NonStreamVars >>

\* connect_and_listen: Some(Ok(Message::Text(text))).  The text is parsed with
\* `?`; the authentication confirmation subscribes once per connection (the
\* subscription write may fail); any other message is forwarded
StreamText ==
    /\ monaco_ws.pc = "listening"
    /\ Len(forwarded) < MaxFrames
    /\ monaco_ws.retry_count < MaxRetries
    /\ \E text \in StreamTexts, written \in BOOLEAN :
          LET ws == Handled(monaco_ws, text)
          IN  IF ~IsSome(parse_text(text))
              THEN /\ monaco_ws' = after_err(ws)
                   /\ UNCHANGED forwarded
              ELSE IF Unwrap(parse_text(text)) = "AuthenticationUpdate"
              THEN /\ monaco_ws' = IF ws.subscribed THEN ws
                                   ELSE IF written THEN [ ws EXCEPT !.subscribed = TRUE ]
                                   ELSE after_err(ws)
                   /\ UNCHANGED forwarded
              ELSE /\ monaco_ws' = ws
                   /\ forwarded' = Append(forwarded, [ connection |-> ws.connection,
                                                       type |-> text ])
    /\ UNCHANGED NonStreamVars

\* connect_and_listen: a Close frame or the end of the stream returns Ok(())
StreamClosed ==
    /\ monaco_ws.pc = "listening"
    /\ monaco_ws' = after_ok(Handled(monaco_ws, "close"))
    /\ UNCHANGED << forwarded, NonStreamVars >>

\* connect_and_listen: Some(Err(e)) from the stream, or a keepalive ping or
\* re-authentication that could not be written, returns Err
StreamError ==
    /\ monaco_ws.pc = "listening"
    /\ monaco_ws.retry_count < MaxRetries
    /\ monaco_ws' = after_err(Handled(monaco_ws, "error"))
    /\ UNCHANGED << forwarded, NonStreamVars >>

NextStream == StreamConnect \/ StreamText \/ StreamClosed \/ StreamError

SpecStream == InitStream /\ [][NextStream]_vars

\* C25: a text message that cannot be parsed is dropped and the stream goes
\* on: after it the connection is still open and listening, and the retry
\* counter is what it was (no reconnect, no retry).
C25_MalformedDropped ==
    monaco_ws.last.kind = "malformed" =>
        /\ monaco_ws.pc = "listening"
        /\ monaco_ws.retry_count = monaco_ws.last.retry_count

\* What the client does with it: connect_and_listen returns the parse error,
\* the connection is given up and start() counts a retry
MalformedEndsConnection ==
    monaco_ws.last.kind = "malformed" =>
        /\ monaco_ws.pc = "backoff"
        /\ monaco_ws.retry_count = monaco_ws.last.retry_count + 1

\* Messages were forwarded on a connection, then a malformed text ended it
MalformedAfterForwarding ==
    /\ monaco_ws.last.kind = "malformed"
    /\ monaco_ws.subscribed
    /\ \E i \in 1..Len(forwarded) : forwarded[i].connection = monaco_ws.connection

-----------------------------------------------------------------------------
(* SpecRefair: apply_update on one bookmaker slot with odds the fair-odds   *)
(* calculation accepts, zeroed odds, odds above the margin limit and line   *)
(* vectors longer than the odds vectors. Each update carries the columns of *)
(* one market, as the engine sends them.                                    *)

MaxRefairUpdates == 3

RefairX12 == { << 20, 30, 40 >>, << 0, 0, 0 >>, << 15, 15, 15 >> }
RefairLines == { << -5 >>, << -5, 5 >> }
RefairFirst == { << 19 >>, << 0, 0 >>, << 19, 21 >> }
RefairSecond == { << 20 >>, << 20, 18 >> }

OptionOf(S) == { None } \cup { Some(v) : v \in S }

RefairUpdates(timestamp) ==
    { [ OddsUpdate_default(1, "A", timestamp) EXCEPT !.x12 = Some(x12) ] : x12 \in RefairX12 }
    \cup { [ OddsUpdate_default(1, "A", timestamp) EXCEPT
               !.ah_lines = lines, !.ah_h = first, !.ah_a = second ] :
             lines \in OptionOf(RefairLines), first \in OptionOf(RefairFirst),
             second \in OptionOf(RefairSecond) }
    \cup { [ OddsUpdate_default(1, "A", timestamp) EXCEPT
               !.ou_lines = lines, !.ou_o = first, !.ou_u = second ] :
             lines \in OptionOf({ << 25 >> }), first \in OptionOf({ << 19 >> }),
             second \in OptionOf({ << 0 >>, << 20 >> }) }

InitRefair ==
    /\ InitCacheVars(Cache_new(1))
    /\ InitHistVars /\ InitWsVars /\ InitBookVars /\ InitIdleVars

ApplyRefairUpdate ==
    /\ nUpdates < MaxRefairUpdates
    /\ \E u \in RefairUpdates(nUpdates + 1) : CacheApply(u)
    /\ UNCHANGED << histVars, wsVars, bookVars, idleVars >>

NextRefair == ApplyRefairUpdate

SpecRefair == InitRefair /\ [][NextRefair]_vars

\* The fair pair at 0-based place i is the fair-odds result for the current
\* pair at that place, or 0 and 0 when the calculation rejects
PairIsCurrent(first, second, fair_first, fair_second, i, decimals) ==
    LET result == calculate_fair_odds(<< GetOr0(first, i), GetOr0(second, i) >>, decimals, 2)
    IN  IF IsSome(result)
        THEN fair_first[i + 1] = Unwrap(result)[1] /\ fair_second[i + 1] = Unwrap(result)[2]
        ELSE fair_first[i + 1] = 0 /\ fair_second[i + 1] = 0

\* The fair ah / ou vectors of a slot have the length of the line vector and
\* hold at every place the result for the current odds
FairVectorsCurrent(slot) ==
    /\ Len(slot.current.fair_ah_h) = Len(slot.current.ah_lines)
    /\ Len(slot.current.fair_ah_a) = Len(slot.current.ah_lines)
    /\ Len(slot.current.fair_ou_o) = Len(slot.current.ou_lines)
    /\ Len(slot.current.fair_ou_u) = Len(slot.current.ou_lines)
    /\ \A i \in 1..Len(slot.current.ah_lines) :
          PairIsCurrent(slot.current.ah_h, slot.current.ah_a, slot.current.fair_ah_h,
                        slot.current.fair_ah_a, i - 1, slot.decimals)
    /\ \A i \in 1..Len(slot.current.ou_lines) :
          PairIsCurrent(slot.current.ou_o, slot.current.ou_u, slot.current.fair_ou_o,
                        slot.current.fair_ou_u, i - 1, slot.decimals)

\* The three fair_x12 scalars of a slot are the result for the current x12
\* odds, and 0 or absent when there are no odds or the calculation rejects
FairX12Current(slot) ==
    LET fair == << slot.current.fair_x12_h, slot.current.fair_x12_x, slot.current.fair_x12_a >>
        result == IF IsSome(slot.current.x12_h) /\ IsSome(slot.current.x12_x)
                     /\ IsSome(slot.current.x12_a)
                  THEN calculate_fair_odds(<< Unwrap(slot.current.x12_h),
                                              Unwrap(slot.current.x12_x),
                                              Unwrap(slot.current.x12_a) >>, slot.decimals, 3)
                  ELSE None
    IN  \A i \in 1..3 : IF IsSome(result) THEN fair[i] = Some(Unwrap(result)[i])
                        ELSE fair[i] \in { None, Some(0) }

\* C28: after every apply_update the fair values of the bookmaker are
\* determined by its current odds alone: the fair ah / ou vectors have the
\* length of the line vector and hold the fair-odds result of every place (0
\* when rejected), the fair_x12 scalars hold the result for the current x12
\* odds (0 or absent when rejected), and no fair value of replaced odds remains.
C28_FairFromCurrentOdds ==
    IsSome(lastUpdate) =>
        /\ FairVectorsCurrent(SlotOf(cache, Unwrap(lastUpdate)))
        /\ FairX12Current(SlotOf(cache, Unwrap(lastUpdate)))

\* The ah / ou half of C28 alone
FairVectorsFollowOdds ==
    IsSome(lastUpdate) => FairVectorsCurrent(SlotOf(cache, Unwrap(lastUpdate)))

\* The fair_x12 scalars are stale only after a rejection, and then they are
\* the ones the slot held before the update
StaleOnlyAfterRejection ==
    IsSome(lastUpdate) =>
        \/ FairX12Current(SlotOf(cache, Unwrap(lastUpdate)))
        \/ /\ SlotOf(cache, Unwrap(lastUpdate)).current.fair_x12_h
                = SlotOf(preCache, Unwrap(lastUpdate)).current.fair_x12_h
           /\ IsSome(SlotOf(cache, Unwrap(lastUpdate)).current.fair_x12_h)

\* Zeroed x12 odds next to the fair values of the odds they replaced
FairOfReplacedOddsRemains ==
    /\ IsSome(lastUpdate)
    /\ Unwrap(lastUpdate).x12 = Some(<< 0, 0, 0 >>)
    /\ SlotOf(cache, Unwrap(lastUpdate)).current.x12_h = Some(0)
    /\ IsSome(SlotOf(cache, Unwrap(lastUpdate)).current.fair_x12_h)
    /\ Unwrap(SlotOf(cache, Unwrap(lastUpdate)).current.fair_x12_h) > 0

-----------------------------------------------------------------------------
(* SpecMerge: successive merge_odds_entry calls on one history column that  *)
(* starts empty; ret holds the column, call the latest call. The entries    *)
(* carry a t, as every entry update_database_with_best_prices builds does,  *)
(* and arrive with t in any order.                                          *)

MaxMerges == 4

MergeTimes == 1..3

MergeEntries == { [ t |-> t, x12 |-> << x, 0, 0 >> ] : t \in MergeTimes, x \in { 1801, 1950 } }

InitMerge ==
    /\ InitNoCall
    /\ call = None
    /\ ret = Some(<< >>)

MergeOddsEntry ==
    /\ nUpdates < MaxMerges
    /\ nUpdates' = nUpdates + 1
    /\ \E new_entry \in MergeEntries :
          /\ call' = Some([ fn |-> "merge_odds_entry", existing |-> Unwrap(ret),
                            new_entry |-> new_entry ])
          /\ ret' = Some(merge_odds_entry(Unwrap(ret), new_entry))
    /\ UNCHANGED << cacheVars, histVars, wsVars, bookVars, monacoVars, pinnacleVars, netVars >>

NextMerge == MergeOddsEntry

SpecMerge == InitMerge /\ [][NextMerge]_vars

\* The entries of a column are in strictly ascending order of t
StrictlyAscending(column) ==
    \A i \in 1..(Len(column) - 1) : column[i].t < column[i + 1].t

\* The places of a column whose entry has the given t
PlacesOf(column, t) == { i \in 1..Len(column) : column[i].t = t }

\* C30: after any sequence of merge_odds_entry calls from an empty column the
\* entries are sorted ascending by t with at most one entry per t; merging an
\* entry whose t exists replaces that entry and leaves the length unchanged,
\* otherwise the length grows by one.
C30_MergeSortedUnique ==
    /\ StrictlyAscending(Unwrap(ret))
    /\ IsSome(call) =>
          /\ PlacesOf(Unwrap(ret), Unwrap(call).new_entry.t) # {}
          /\ \A i \in PlacesOf(Unwrap(ret), Unwrap(call).new_entry.t) :
                Unwrap(ret)[i] = Unwrap(call).new_entry
          /\ \A i \in 1..Len(Unwrap(call).existing) :
                Unwrap(call).existing[i].t # Unwrap(call).new_entry.t
                  => \E j \in 1..Len(Unwrap(ret)) : Unwrap(ret)[j] = Unwrap(call).existing[i]
          /\ Len(Unwrap(ret)) =
                IF PlacesOf(Unwrap(call).existing, Unwrap(call).new_entry.t) # {}
                THEN Len(Unwrap(call).existing)
                ELSE Len(Unwrap(call).existing) + 1

\* C30 witness: an entry between two others was replaced by a different one
\* of the same t, in a column built by merging an older t after a newer one
C30_Witness ==
    /\ IsSome(call)
    /\ Len(Unwrap(call).existing) = 3
    /\ Unwrap(call).new_entry.t = 2
    /\ Unwrap(call).existing[2] # Unwrap(call).new_entry
    /\ Unwrap(ret)[2] = Unwrap(call).new_entry
    /\ Len(Unwrap(ret)) = 3

\* An entry merged with a t below the latest one is placed before it
MergedOutOfOrder ==
    /\ IsSome(call)
    /\ Len(Unwrap(call).existing) = 1
    /\ Unwrap(call).existing[1].t > Unwrap(call).new_entry.t
    /\ Unwrap(ret) = << Unwrap(call).new_entry, Unwrap(call).existing[1] >>

-----------------------------------------------------------------------------
(* The persisted max_stakes column, on the Pinnacle and on the Monaco path  *)

\* C31: after every write by the Monaco or the Pinnacle path the persisted
\* max_stakes column of the row is a sequence of exactly one element, which
\* holds the current liquidity; it never grows with successive updates.
C31_SingleStakesEntry ==
    (lastPoll.polled /\ lastPoll.db_updated) =>
        /\ IsSome(pinnacle_db)
        /\ Len(Unwrap(pinnacle_db).max_stakes) = 1
        /\ PreparedColumns[4] # << >> =>
              EqualUpToT(Unwrap(pinnacle_db).max_stakes[1], PreparedColumns[4][1])

\* The Monaco path alone: every write leaves one max_stakes element, stamped
\* with the time of the write
MonacoStakesSingle ==
    (lastMonacoMsg.handled /\ IsSome(monaco_db)) =>
        /\ Len(Unwrap(monaco_db).max_stakes) = 1
        /\ Unwrap(monaco_db).max_stakes[1].t = now

\* The Pinnacle path appended a second max_stakes element to the row
PinnacleStakesGrow ==
    /\ lastPoll.polled /\ lastPoll.db_updated
    /\ IsSome(lastPoll.before)
    /\ Len(Unwrap(lastPoll.before).max_stakes) = 1
    /\ Len(Unwrap(pinnacle_db).max_stakes) = 2
    /\ Unwrap(pinnacle_db).max_stakes[1] = Unwrap(lastPoll.before).max_stakes[1]

-----------------------------------------------------------------------------
(* SpecBackoff: the reconnect loop of MonacoWebSocketClient::start() alone. *)
(* Each turn computes the wait from retry_count, sleeps, and runs           *)
(* connect_and_listen, which ends with Ok (clean close) or Err.             *)

MaxFailures == 66

MAX_BACKOFF_SECS == 60
U64_BITS == 64

\* min(value * 2^exp, cap), doubling until the cap is passed
RECURSIVE min_of_doubling(_, _, _)
min_of_doubling(value, exp, cap) ==
    IF value >= cap THEN cap
    ELSE IF exp = 0 THEN value
    ELSE min_of_doubling(2 * value, exp - 1, cap)

\* start(): backoff_secs = min(2u64.pow(retry_count.saturating_sub(1)), 60),
\* 0 for retry_count 0. 2u64.pow overflows from exponent 64 on: a build with
\* overflow checks panics (None), one without wraps 2^64 to 0
backoff_secs(retry_count) ==
    IF retry_count = 0 THEN { Some(0) }
    ELSE IF retry_count - 1 < U64_BITS
    THEN { Some(min_of_doubling(1, retry_count - 1, MAX_BACKOFF_SECS)) }
    ELSE { None, Some(0) }

Waited(ws, wait) ==
    [ ws EXCEPT !.last = [ kind |-> "wait", retry_count |-> ws.retry_count,
                           backoff_secs |-> wait ] ]

\* start(): the head of the loop, up to the end of the sleep
BackoffWait ==
    /\ monaco_ws.pc = "backoff"
    /\ \E wait \in backoff_secs(monaco_ws.retry_count) :
          monaco_ws' = [ Waited(monaco_ws, wait) EXCEPT
                           !.pc = IF IsSome(wait) THEN "connecting" ELSE "panicked" ]
    /\ UNCHANGED << forwarded, NonStreamVars >>

\* start(): connect_and_listen returned Err; retry_count.saturating_add(1)
BackoffFailure ==
    /\ monaco_ws.pc = "connecting"
    /\ monaco_ws.retry_count < MaxFailures
    /\ monaco_ws' = [ monaco_ws EXCEPT !.pc = "backoff", !.retry_count = @ + 1,
                                       !.connection = @ + 1 ]
    /\ UNCHANGED << forwarded, NonStreamVars >>

\* start(): connect_and_listen returned Ok(()) after a clean close
BackoffCleanClose ==
    /\ monaco_ws.pc = "connecting"
    /\ monaco_ws' = [ monaco_ws EXCEPT
                        !.pc = "backoff", !.retry_count = 0, !.connection = 0,
                        !.last = [ kind |-> "close", retry_count |-> monaco_ws.retry_count,
                                   backoff_secs |-> None ] ]
    /\ UNCHANGED << forwarded, NonStreamVars >>

NextBackoff == BackoffWait \/ BackoffFailure \/ BackoffCleanClose

SpecBackoff == InitStream /\ [][NextBackoff]_vars

\* The wait the claim gives for a number of consecutive failures
ClaimedWait(failures) ==
    CASE failures = 0 -> 0
      [] failures = 1 -> 1
      [] failures = 2 -> 2
      [] failures = 3 -> 4
      [] failures = 4 -> 8
      [] failures = 5 -> 16
      [] failures = 6 -> 32
      [] OTHER -> MAX_BACKOFF_SECS

\* C32: the wait before the next attempt doubles with each further
\* consecutive failure until it reaches the 60 s cap and stays at 60 s for
\* every later consecutive failure, however many; it never exceeds 60 s, and
\* after a clean close the retry counter is reset so that the next wait is 0.
C32_BackoffCapped ==
    /\ monaco_ws.last.kind = "wait" =>
          /\ IsSome(monaco_ws.last.backoff_secs)
          /\ Unwrap(monaco_ws.last.backoff_secs) = ClaimedWait(monaco_ws.last.retry_count)
          /\ Unwrap(monaco_ws.last.backoff_secs) <= MAX_BACKOFF_SECS
    /\ monaco_ws.last.kind = "close" => monaco_ws.retry_count = 0

\* The claim holds for up to 64 consecutive failures
CappedWithin64Failures ==
    /\ (monaco_ws.last.kind = "wait" /\ monaco_ws.last.retry_count <= U64_BITS) =>
          /\ IsSome(monaco_ws.last.backoff_secs)
          /\ Unwrap(monaco_ws.last.backoff_secs) = ClaimedWait(monaco_ws.last.retry_count)
    /\ monaco_ws.last.kind = "close" => monaco_ws.retry_count = 0

\* After the 65th consecutive failure the loop reconnects without a wait
NoWaitAfterOverflow ==
    /\ monaco_ws.last.kind = "wait"
    /\ monaco_ws.last.retry_count = U64_BITS + 1
    /\ monaco_ws.last.backoff_secs = Some(0)
    /\ monaco_ws.pc = "connecting"

\* After the 65th consecutive failure the loop ends in a panic
PanicAfterOverflow ==
    /\ monaco_ws.last.kind = "wait"
    /\ monaco_ws.last.retry_count = U64_BITS + 1
    /\ monaco_ws.pc = "panicked"

-----------------------------------------------------------------------------
(* SpecLines: the line comparisons of the filter engine on two line values. *)
(* Lines are in ten-thousandths here (2500 is 0.25), so that the tolerance  *)
(* 0.001 is LINE_TOLERANCE = 10 and differences below it occur.  The sample *)
(* lines are those on which the f64 comparisons of the code and the integer *)
(* ones below agree: a difference of exactly 0.001 occurs against line 0,   *)
(* where the f64 subtraction is exact, and no sample is a rounding tie.     *)

LINE_TOLERANCE == 10

LineSamples == { -10, 0, 4, 6, 9, 10, 2494, 2496, 2500 }

AbsDiff(a, b) == IF a >= b THEN a - b ELSE b - a

\* evaluate_standard_arithmetic: the candidates filter on the right lines
\* (l_line - r_line).abs() < 0.001
generic_candidate(l_line, r_line) == AbsDiff(l_line, r_line) < LINE_TOLERANCE

\* evaluate_with_line_matching: the position closure on the right lines
\* (rv - left_line).abs() < 0.001
semantic_position_hit(rv, left_line) == AbsDiff(rv, left_line) < LINE_TOLERANCE

\* evaluate_history: a resolved value is skipped when
\* (orig_line - res_line).abs() > 0.001, and kept otherwise
history_line_kept(orig_line, res_line) == ~(AbsDiff(orig_line, res_line) > LINE_TOLERANCE)

\* evaluate_vector_per_line: line_key = (line * 1000.0).round() as i64, f64::round
\* rounding half away from zero
vector_line_key(line) ==
    IF line >= 0 THEN (line + 5) \div 10 ELSE 0 - ((0 - line + 5) \div 10)

\* Two lines are gathered in the same by_line entry iff their keys are equal
vector_same_entry(a, b) == vector_line_key(a) = vector_line_key(b)

LineSites == { "generic_line", "semantic_line", "history_line", "vector_line" }

LineCalls ==
    { [ fn |-> site, left |-> l, right |-> r ] :
        site \in LineSites, l \in LineSamples, r \in LineSamples }

CallGenericLine ==
    /\ ~Returned
    /\ call.fn = "generic_line"
    /\ ret' = Some(generic_candidate(call.left, call.right))
    /\ UNCHANGED << call, NonCallVars >>

CallSemanticLine ==
    /\ ~Returned
    /\ call.fn = "semantic_line"
    /\ ret' = Some(semantic_position_hit(call.right, call.left))
    /\ UNCHANGED << call, NonCallVars >>

CallHistoryLine ==
    /\ ~Returned
    /\ call.fn = "history_line"
    /\ ret' = Some(history_line_kept(call.left, call.right))
    /\ UNCHANGED << call, NonCallVars >>

CallVectorLine ==
    /\ ~Returned
    /\ call.fn = "vector_line"
    /\ ret' = Some(vector_same_entry(call.left, call.right))
    /\ UNCHANGED << call, NonCallVars >>

InitLines ==
    /\ InitNoCall
    /\ call \in LineCalls
    /\ ret = None

NextLines == CallGenericLine \/ CallSemanticLine \/ CallHistoryLine \/ CallVectorLine

SpecLines == InitLines /\ [][NextLines]_vars

\* The two lines of the call differ by strictly less than 1e-3
WithinTolerance == AbsDiff(call.left, call.right) < LINE_TOLERANCE

\* C35: at each of the four sites (semantic line matching, generic
\* line-annotated matching, the history operator's line filter, per-line vector
\* grouping) two line values are treated as the same line iff they differ by
\* strictly less than 1e-3.
C35_LineTolerance ==
    Returned => (Unwrap(ret) <=> WithinTolerance)

\* The semantic and the generic line matching pair two lines iff they differ
\* by strictly less than 1e-3
MatchingSitesStrict ==
    (Returned /\ call.fn \in { "generic_line", "semantic_line" }) => (Unwrap(ret) <=> WithinTolerance)

\* The history line filter keeps a line that differs by at most 1e-3, the
\* vector grouping gathers only lines that differ by less than 1e-3
OtherSitesBounded ==
    /\ (Returned /\ call.fn = "history_line")
         => (Unwrap(ret) <=> AbsDiff(call.left, call.right) <= LINE_TOLERANCE)
    /\ (Returned /\ call.fn = "vector_line" /\ Unwrap(ret)) => WithinTolerance

\* The history line filter keeps a value whose line differs by exactly 1e-3
HistoryKeepsAtTolerance ==
    /\ Returned /\ call.fn = "history_line"
    /\ AbsDiff(call.left, call.right) = LINE_TOLERANCE
    /\ Unwrap(ret)

\* The vector grouping separates two lines that differ by less than 1e-3
VectorSplitsWithinTolerance ==
    /\ Returned /\ call.fn = "vector_line"
    /\ WithinTolerance
    /\ ~Unwrap(ret)

-----------------------------------------------------------------------------
(* SpecWS: the send task's write against the request handler.               *)

\* The send task has just written the update it admitted, on a filtered session
FilteredWrite == lastStep = "send" /\ IsSome(client_state.filter)

\* C36: in every interleaving of the send task with the request handler, each
\* odds_update written to the socket of a filtered session is for a fixture in
\* the session's matching set under the filter in force when it is written; no
\* update admitted under a previous filter is delivered after the snapshot for
\* a new filter has been sent.
C36_WrittenUnderFilterInForce ==
    FilteredWrite =>
        /\ IsOddsUpdateFor(socket, handled.fixture_id)
        /\ handled.fixture_id \in client_state.matching_fixtures
        /\ handled.epoch = epoch

\* Without a request between the filter block and the write, the update
\* written is for a fixture of the matching set
WrittenInSetWithoutRequest ==
    (FilteredWrite /\ handled.epoch = epoch) =>
        /\ IsOddsUpdateFor(socket, handled.fixture_id)
        /\ handled.fixture_id \in client_state.matching_fixtures

\* An update admitted under the previous filter is written after the snapshot
\* of the new filter, for a fixture outside the new matching set
StaleUpdateAfterSnapshot ==
    /\ FilteredWrite
    /\ handled.filtered
    /\ handled.epoch < epoch
    /\ handled.fixture_id \notin client_state.matching_fixtures

-----------------------------------------------------------------------------
(* SpecHandlers: price-update handlers of one fixture running concurrently. *)
(* start_ingestion_engine spawns a task per message; a task gives up the    *)
(* thread at each await of handle_price_update, so a handler is four steps: *)
(* the order-book update under the mutex (which returns the snapshot), the  *)
(* SELECT of update_database_with_best_prices, its UPDATE, and the send to  *)
(* the processor.  monaco_tasks holds the handlers with their locals.       *)

MaxHandlers == 2

HandlerMessages ==
    { PriceUpdate("MX", Some(<< Against("X1", 181, 5) >>)),
      PriceUpdate("MX", Some(<< Against("X1", 195, 7) >>)),
      PriceUpdate("MH1", Some(<< Against("A1", 195, 5) >>)),
      PriceUpdate("MH2", Some(<< Against("B2", 181, 5) >>)),
      PriceUpdate("MU", Some(<< Against("X1", 181, 5) >>)) }

\* A spawned handle_price_update and its locals
HandlerTask(message) ==
    [ pc |-> "book", message |-> message, order_book |-> EmptyMap, timestamp |-> 0,
      existing |-> None ]

NoHandlerRun == [ overlapped |-> FALSE, sent_key |-> None ]

InitHandlers ==
    /\ InitCacheVars(Cache_new(1))
    /\ InitHistVars /\ InitWsVars /\ InitBookVars /\ InitPinnacleVars /\ InitCallVars
    /\ InitNetVars
    /\ monaco_tasks = << >>
    /\ now = 1
    /\ monaco_db \in MonacoRows
    /\ processor_out = None
    /\ lastMonacoMsg = NoHandlerRun
    /\ sinceClose = EmptyMap
    /\ closedTypes = {}
    /\ market_map = EmptyMap
    /\ refresh_task = RefreshTask_idle

without_task(tasks, i) == SubSeq(tasks, 1, i - 1) \o SubSeq(tasks, i + 1, Len(tasks))

task_key(task) == mapping_key(Unwrap(task.message.eventId), Unwrap(task.message.marketId))

\* start_ingestion_engine: a MarketPriceUpdate off the stream spawns its handler
SpawnPriceHandler ==
    /\ nUpdates < MaxHandlers
    /\ nUpdates' = nUpdates + 1
    /\ \E msg \in HandlerMessages : monaco_tasks' = Append(monaco_tasks, HandlerTask(msg))
    /\ UNCHANGED << now, monaco_db, processor_out, lastMonacoMsg, sinceClose, closedTypes, market_map, refresh_task >>
    /\ UNCHANGED << bookVars, NonMonacoVars >>

\* handle_price_update up to the end of the order-book block: the early
\* returns, then ob.update under the mutex, which returns the book of the key
HandlerUpdateBook ==
    /\ \E i \in 1..Len(monaco_tasks) :
        LET task == monaco_tasks[i]
            message == task.message
            key == task_key(task)
        IN
        /\ task.pc = "book"
        /\ IF \/ ~IsSome(message.marketId)
              \/ ~IsSome(message.eventId)
              \/ ~IsSome(message.prices)
              \/ message.prices = Some(<< >>)
              \/ key \notin DOMAIN market_mapping
           THEN /\ monaco_tasks' = without_task(monaco_tasks, i)
                /\ UNCHANGED << bookVars, lastMonacoMsg >>
           ELSE IF ~IsSome(market_mapping[key].fixture_id)
           THEN /\ monaco_tasks' = without_task(monaco_tasks, i)
                /\ UNCHANGED << bookVars, lastMonacoMsg >>
           ELSE
             LET mapping == market_mapping[key]
                 fixture_id == Unwrap(mapping.fixture_id)
                 books == update(order_books, fixture_id, message.prices, mapping.market_type,
                                 outcome_keys(mapping.outcome_mappings))
             IN
             /\ order_books' = books
             /\ lastBookOp' = [ op |-> "update",
                                key |-> order_book_key(fixture_id, mapping.market_type),
                                message |-> message.prices, before |-> order_books ]
             /\ monaco_tasks' =
                  [ monaco_tasks EXCEPT ![i] =
                      [ task EXCEPT !.pc = "select",
                                    !.order_book = books[order_book_key(fixture_id,
                                                                        mapping.market_type)] ] ]
             /\ lastMonacoMsg' =
                  [ lastMonacoMsg EXCEPT !.overlapped =
                      @ \/ \E j \in 1..Len(monaco_tasks) : j # i /\ monaco_tasks[j].pc # "book" ]
    /\ UNCHANGED << nUpdates, now, monaco_db, processor_out, sinceClose, closedTypes, market_map, refresh_task,
                    NonMonacoVars >>

\* update_database_with_best_prices, lines 21-40: the timestamp and the SELECT;
\* without a row the function returns and the handler goes on to the send
HandlerSelect ==
    /\ \E i \in 1..Len(monaco_tasks), timestamp \in { now, now + 1 } :
        /\ monaco_tasks[i].pc = "select"
        /\ now' = timestamp
        /\ monaco_tasks' =
             [ monaco_tasks EXCEPT ![i] =
                 [ @ EXCEPT !.pc = IF IsSome(monaco_db) THEN "write" ELSE "send",
                            !.timestamp = timestamp,
                            !.existing = monaco_db ] ]
    /\ UNCHANGED << nUpdates, monaco_db, processor_out, lastMonacoMsg, sinceClose, closedTypes, market_map, refresh_task,
                    bookVars, NonMonacoVars >>

\* The UPDATE statement: the odds column of the market type, max_stakes and
\* latest_t of the row are replaced by those computed from what was selected
row_after_update(current, computed, market_type) ==
    IF ~IsSome(current) THEN current
    ELSE Some(MonacoRow(Unwrap(current).lines,
                        IF market_type = "x12" THEN computed.odds_x12
                        ELSE Unwrap(current).odds_x12,
                        IF market_type = "x12" THEN Unwrap(current).odds_ah
                        ELSE computed.odds_ah,
                        computed.max_stakes, computed.latest_t))

\* update_database_with_best_prices, lines 42-192: the entries built from the
\* handler's snapshot are merged into the selected columns and written
HandlerWrite ==
    /\ \E i \in 1..Len(monaco_tasks) :
        LET task == monaco_tasks[i]
            mapping == market_mapping[task_key(task)]
            mappings == get_fixture_mappings(market_mapping, Unwrap(mapping.fixture_id))
            computed == update_database_with_best_prices(task.existing, mapping.market_type,
                                                         task.order_book, mappings,
                                                         task.timestamp)
        IN
        /\ task.pc = "write"
        /\ monaco_db' = row_after_update(monaco_db, Unwrap(computed), mapping.market_type)
        /\ monaco_tasks' = [ monaco_tasks EXCEPT ![i] = [ task EXCEPT !.pc = "send" ] ]
    /\ UNCHANGED << nUpdates, now, processor_out, lastMonacoMsg, sinceClose, closedTypes, market_map, refresh_task,
                    bookVars, NonMonacoVars >>

\* handle_price_update, lines 124-151: the update built from the handler's
\* snapshot is sent to the processor and the handler ends
HandlerSend ==
    /\ \E i \in 1..Len(monaco_tasks) :
        LET task == monaco_tasks[i]
            mapping == market_mapping[task_key(task)]
        IN
        /\ task.pc = "send"
        /\ processor_out' = IF IsSome(processor_client)
                            THEN build_odds_update(Unwrap(mapping.fixture_id), mapping,
                                                   task.order_book, task.timestamp, now)
                            ELSE processor_out
        /\ lastMonacoMsg' = [ lastMonacoMsg EXCEPT !.sent_key = Some(task_key(task)) ]
        /\ monaco_tasks' = without_task(monaco_tasks, i)
    /\ UNCHANGED << nUpdates, now, monaco_db, sinceClose, closedTypes, market_map, refresh_task, bookVars,
                    NonMonacoVars >>

NextHandlers ==
    \/ SpawnPriceHandler
    \/ HandlerUpdateBook
    \/ HandlerSelect
    \/ HandlerWrite
    \/ HandlerSend

SpecHandlers == InitHandlers /\ [][NextHandlers]_vars

\* No spawned handler is still running
AllHandlersFinished == monaco_tasks = << >>

odds_column(row, market_type) == IF market_type = "x12" THEN row.odds_x12 ELSE row.odds_ah

\* The latest persisted entry of the market type is the projection of the
\* current order book: writing that projection at the entry's time changes nothing
LatestEntryIsFinal(market_type) ==
    LET row == Unwrap(monaco_db)
        odds == odds_column(row, market_type)
        key == order_book_key(1, market_type)
    IN  (odds # << >> /\ key \in DOMAIN order_books) =>
          odds_column(Unwrap(update_database_with_best_prices(
                               monaco_db, market_type, order_books[key],
                               get_fixture_mappings(market_mapping, 1), odds[Len(odds)].t)),
                      market_type) = odds

\* The last update sent to the processor is the one the current order book gives
LastSentIsFinal ==
    (IsSome(processor_out) /\ IsSome(lastMonacoMsg.sent_key)) =>
        LET mapping == market_mapping[Unwrap(lastMonacoMsg.sent_key)]
            sent == Unwrap(processor_out)
        IN  build_odds_update(1, mapping, order_books[order_book_key(1, mapping.market_type)],
                              sent.start, sent.timestamp) = processor_out

PersistedAndSentFinal ==
    /\ IsSome(monaco_db) => LatestEntryIsFinal("x12") /\ LatestEntryIsFinal("ah")
    /\ LastSentIsFinal

\* C37: when several price updates of one fixture are handled by concurrently
\* spawned handlers, once all handlers have finished the latest persisted odds
\* entry of each market type and the last update sent to the processor equal
\* the projection of the final order-book state.
C37_ConcurrentHandlersConverge ==
    AllHandlersFinished => PersistedAndSentFinal

\* Handlers that run one after the other leave the final state persisted and sent
SequentialHandlersConverge ==
    (AllHandlersFinished /\ ~lastMonacoMsg.overlapped) => PersistedAndSentFinal

\* Two overlapping handlers have finished and the latest persisted entry is
\* that of the earlier snapshot
EarlierSnapshotPersisted ==
    /\ AllHandlersFinished
    /\ lastMonacoMsg.overlapped
    /\ IsSome(monaco_db)
    /\ ~LatestEntryIsFinal("x12")

\* Two overlapping handlers have finished and the update sent last is that of
\* the earlier snapshot
EarlierSnapshotSentLast ==
    /\ AllHandlersFinished
    /\ lastMonacoMsg.overlapped
    /\ ~LastSentIsFinal

-----------------------------------------------------------------------------
(* SpecBurst: the update channel of main() with its capacity, and the       *)
(* update-apply task behind it.  The channel keeps the newest messages up   *)
(* to its capacity; tail counts the messages stored, and the task's         *)
(* receiver update_rx stands at `next`, the number of messages it has taken *)
(* or passed.  A receiver whose next message was overwritten gets           *)
(* Err(Lagged) from recv().  The capacity is scaled down from 1000 so that  *)
(* the updates of the model can overrun it.                                 *)

UpdateChannelCapacity == 2

MaxPublished == 5

UpdateChannel(buffer, tail, unreceived) ==
    [ buffer |-> buffer, tail |-> tail, unreceived |-> unreceived ]

\* update_tx.send(update): with a receiver the update is stored, over the
\* oldest one when the channel is full; without one it is returned as an error
update_send(channel, message, subscribed) ==
    IF ~subscribed
    THEN UpdateChannel(channel.buffer, channel.tail, channel.unreceived + 1)
    ELSE UpdateChannel(IF Len(channel.buffer) >= UpdateChannelCapacity
                       THEN Append(Tail(channel.buffer), message)
                       ELSE Append(channel.buffer, message),
                       channel.tail + 1, channel.unreceived)

\* The position of the oldest message the channel still holds
oldest_kept(channel) == channel.tail - Len(channel.buffer)

\* update_rx.recv() when a message is due: Err(Lagged) if it was overwritten
update_recv(channel, next) ==
    IF next < oldest_kept(channel) THEN None
    ELSE Some(channel.buffer[next - oldest_kept(channel) + 1])

BurstTask(pc, held, next) == [ pc |-> pc, update |-> held, next |-> next ]

InitBurst ==
    /\ InitCacheVars(IngestHydrated)
    /\ InitHistVars /\ InitWsVars /\ InitBookVars
    /\ InitMonacoVars(None) /\ InitPinnacleVars /\ InitCallVars
    /\ rx_missed = 0 /\ InitClientVars /\ InitStreamVars
    /\ tcp_conns = << >>
    /\ update_channel = UpdateChannel(<< >>, 0, 0)
    /\ apply_task = BurstTask("recv", None, 0)
    /\ cache_lock = Unlocked
    /\ snapshot_task = SnapshotTask_idle
    /\ applied_log = << >>

BurstIdleVars == << tcp_conns, cache_lock, snapshot_task, socket, pending_ws, client_state,
                   send_task, handled, verdict, epoch, NonIngestVars >>

\* A producer (the database listener or a TCP reader) sends the next update
PublishUpdate ==
    /\ update_channel.tail + update_channel.unreceived < MaxPublished
    /\ \E b \in IngestBookmakers :
          LET k == update_channel.tail + update_channel.unreceived + 1 IN
          update_channel' =
            update_send(update_channel,
                        Published(<< 0, k >>,
                                  [ OddsUpdate_default(1, b, k) EXCEPT !.x12 = Some(X12High) ]),
                        apply_task.pc # "ended")
    /\ lastStep' = "publish"
    /\ UNCHANGED << cacheVars, nUpdates, apply_task, applied_log, rx, BurstIdleVars >>

\* main(): update_rx.recv() returned Ok(update)
BurstRecv ==
    /\ apply_task.pc = "recv"
    /\ apply_task.next < update_channel.tail
    /\ IsSome(update_recv(update_channel, apply_task.next))
    /\ apply_task' = BurstTask("write", update_recv(update_channel, apply_task.next),
                               apply_task.next + 1)
    /\ lastStep' = "recv"
    /\ UNCHANGED << cacheVars, nUpdates, update_channel, applied_log, rx, BurstIdleVars >>

\* main(): update_rx.recv() returned Err(Lagged); `while let Ok(update)` does
\* not match, the loop and the task end and the receiver is dropped
BurstRecvLagged ==
    /\ apply_task.pc = "recv"
    /\ apply_task.next < update_channel.tail
    /\ ~IsSome(update_recv(update_channel, apply_task.next))
    /\ apply_task' = BurstTask("ended", None, apply_task.next)
    /\ lastStep' = "lagged"
    /\ UNCHANGED << cacheVars, nUpdates, update_channel, applied_log, rx, BurstIdleVars >>

\* main(): the body of the loop: the update is applied under the cache write
\* lock and the odds_update message is broadcast
BurstApply ==
    /\ apply_task.pc = "write"
    /\ CacheApply(Unwrap(apply_task.update).update)
    /\ applied_log' = Append(applied_log, Unwrap(apply_task.update))
    /\ rx' = Append(rx, WsMessage("odds_update", Unwrap(apply_task.update).update.fixture_id,
                                  Unwrap(apply_task.update).update.timestamp,
                                  cache'.fixtures[Unwrap(apply_task.update).update.fixture_id].bookmakers,
                                  None))
    /\ apply_task' = BurstTask("recv", None, apply_task.next)
    /\ lastStep' = "apply"
    /\ UNCHANGED << update_channel, BurstIdleVars >>

NextBurst == PublishUpdate \/ BurstRecv \/ BurstRecvLagged \/ BurstApply

SpecBurst == InitBurst /\ [][NextBurst]_vars

\* C38: the update-apply task runs for the lifetime of the process: after a
\* burst of updates that overflows the update channel (receiver lag), every
\* update published afterwards is still applied to the cache and broadcast.
C38_ApplyTaskOutlivesLag ==
    /\ apply_task.pc # "ended"
    /\ update_channel.unreceived = 0

\* The task ends only on a recv() whose message had been overwritten, and
\* until then it applies and broadcasts the updates in the order published
ApplyTaskEndsOnLagOnly ==
    /\ apply_task.pc = "ended" => apply_task.next < oldest_kept(update_channel)
    /\ \A i \in 1..Len(applied_log) : applied_log[i].origin[2] = i
    /\ Len(rx) = Len(applied_log)
    /\ update_channel.unreceived > 0 => apply_task.pc = "ended"

\* A burst has overrun the channel and the task has ended
EndedAfterBurst ==
    /\ apply_task.pc = "ended"
    /\ update_channel.tail > UpdateChannelCapacity

\* An update published after the task ended: nothing holds it, and it is
\* neither applied nor broadcast
PublishedAfterLagLost ==
    /\ lastStep = "publish"
    /\ apply_task.pc = "ended"
    /\ update_channel.unreceived > 0

-----------------------------------------------------------------------------
(* SpecRefresh: the periodic market refresh of main() against the handlers  *)
(* of the stream messages.  market_map is AppState.market_mapping as the    *)
(* start-up run of fetch_and_process_markets left it, with every market of  *)
(* event E1 mapped to fixture 1.  A refresh is two steps, apart at the      *)
(* await of find_fixture_by_event: the loop over the fetched markets, then  *)
(* the loop over the events.  A handler reads the map in one step.          *)
(* ensure_fixture_odds_record, whose row exists already, succeeds or fails. *)

MaxRefreshes == 2

MaxRefreshMsgs == 2

RefreshMessages ==
    { PriceUpdate("MX", Some(<< Against("X1", 181, 5) >>)),
      PriceUpdate("MH1", Some(<< Against("A1", 195, 5) >>)),
      StatusUpdate("MX", Some("Closed"), None) }

\* The markets of event E1 the API returns, as the mapping loop reads them
FetchedMarkets ==
    << [ id |-> "MX", market_type |-> Some("x12"), line_value |-> None,
         outcome_mappings |-> X12Outcomes, prices |-> None ],
       [ id |-> "MH1", market_type |-> Some("ah"), line_value |-> Some(-5),
         outcome_mappings |-> LowLineOutcomes, prices |-> None ],
       [ id |-> "MH2", market_type |-> Some("ah"), line_value |-> Some(5),
         outcome_mappings |-> HighLineOutcomes, prices |-> None ] >>

\* fetch_and_process_markets, the loop over the markets: each market's
\* mapping is inserted with fixture_id None
RECURSIVE insert_mappings(_, _)
insert_mappings(table, markets) ==
    IF markets = << >> THEN table
    ELSE LET market == Head(markets) IN
         insert_mappings(MapPut(table, mapping_key("E1", market.id),
                                MarketMapping(Unwrap(market.market_type), market.line_value,
                                              None, Some(market.outcome_mappings))),
                         Tail(markets))

\* Ok(Some(fixture_id)): the mappings of the event's markets get the fixture_id
RECURSIVE resolve_mappings(_, _, _)
resolve_mappings(table, markets, fixture_id) ==
    IF markets = << >> THEN table
    ELSE LET key == mapping_key("E1", Head(markets).id) IN
         resolve_mappings(IF key \in DOMAIN table
                          THEN [ table EXCEPT ![key].fixture_id = Some(fixture_id) ]
                          ELSE table,
                          Tail(markets), fixture_id)

InitRefresh ==
    /\ InitCacheVars(Cache_new(1))
    /\ InitHistVars /\ InitWsVars /\ InitBookVars /\ InitPinnacleVars /\ InitCallVars
    /\ InitNetVars
    /\ monaco_tasks = << >>
    /\ now = 1
    /\ monaco_db = Some(MonacoRow(<< [ t |-> 0, ah |-> << -5, 5 >> ] >>, << >>, << >>, << >>,
                                  EmptyMap))
    /\ processor_out = None
    /\ lastMonacoMsg = NoMonacoMsg
    /\ sinceClose = EmptyMap
    /\ closedTypes = {}
    /\ market_map = resolve_mappings(insert_mappings(EmptyMap, FetchedMarkets), FetchedMarkets, 1)
    /\ refresh_task = RefreshTask_idle

\* start_ingestion_engine: one message off the stream spawns its handler
ReceiveDuringRefresh ==
    /\ nUpdates < MaxRefreshMsgs
    /\ nUpdates' = nUpdates + 1
    /\ \E msg \in RefreshMessages : monaco_tasks' = Append(monaco_tasks, msg)
    /\ UNCHANGED << now, monaco_db, processor_out, lastMonacoMsg, sinceClose, closedTypes,
                    market_map, refresh_task >>
    /\ UNCHANGED << bookVars, NonMonacoVars >>

\* main(): interval.tick() and fetch_and_process_markets up to its first
\* find_fixture_by_event; a failed fetch returns before the map is touched
RefreshInsert ==
    /\ refresh_task.pc = "idle"
    /\ refresh_task.runs < MaxRefreshes
    /\ \E fetched \in BOOLEAN :
          /\ market_map' = IF fetched THEN insert_mappings(market_map, FetchedMarkets)
                           ELSE market_map
          /\ refresh_task' = [ pc |-> IF fetched THEN "resolving" ELSE "idle",
                               runs |-> refresh_task.runs + 1,
                               found |-> IF fetched THEN None ELSE refresh_task.found ]
    /\ UNCHANGED << nUpdates, monaco_tasks, now, monaco_db, processor_out, lastMonacoMsg,
                    sinceClose, closedTypes, bookVars, NonMonacoVars >>

\* fetch_and_process_markets, the loop over the events: find_fixture_by_event
\* returned; on Ok(Some(fixture_id)) the mappings are resolved and, when the
\* record is ensured, the order book is initialized
RefreshResolve ==
    /\ refresh_task.pc = "resolving"
    /\ \E found \in { "fixture", "none", "error" }, ensured \in BOOLEAN :
          /\ market_map' = IF found = "fixture"
                           THEN resolve_mappings(market_map, FetchedMarkets, 1)
                           ELSE market_map
          /\ order_books' = IF found = "fixture" /\ ensured
                            THEN initialize(order_books, 1, FetchedMarkets)
                            ELSE order_books
          /\ refresh_task' = [ refresh_task EXCEPT !.pc = "idle", !.found = Some(found) ]
    /\ UNCHANGED << nUpdates, monaco_tasks, now, monaco_db, processor_out, lastMonacoMsg,
                    sinceClose, closedTypes, lastBookOp, NonMonacoVars >>

RefreshPriceUpdate == handle_price_update(market_map)

RefreshStatusUpdate == handle_market_status_update(market_map)

NextRefresh ==
    \/ ReceiveDuringRefresh
    \/ RefreshInsert
    \/ RefreshResolve
    \/ RefreshPriceUpdate
    \/ RefreshStatusUpdate

SpecRefresh == InitRefresh /\ [][NextRefresh]_vars

Resolved(table) == { k \in DOMAIN table : IsSome(table[k].fixture_id) }

\* C39: once a market's mapping carries a resolved fixture_id it never loses
\* it, in every interleaving of the periodic market refresh with the update
\* handlers, so that there is no window in which the market is treated as
\* Unmapped and its updates are dropped.
C39_FixtureIdNeverLost ==
    [][\A k \in Resolved(market_map) :
          k \in DOMAIN market_map' /\ market_map'[k].fixture_id = market_map[k].fixture_id]_vars

\* The handlers never touch the map, a finished refresh that found the
\* fixture leaves every market resolved, and a handler drops a message of
\* these markets only while its market is unresolved
MapResolvedAfterRefresh ==
    /\ (refresh_task.pc = "idle" /\ refresh_task.found \in { None, Some("fixture") })
          => Resolved(market_map) = DOMAIN market_map
    /\ (lastMonacoMsg.type # "none" /\ ~lastMonacoMsg.handled /\ ~lastMonacoMsg.should_zero)
          => \/ lastMonacoMsg.type = "MarketStatusUpdate"
             \/ refresh_task.runs > 0

\* A price update of a market mapped before the refresh began was dropped
\* while the refresh was between its two loops
UpdateDroppedDuringRefresh ==
    /\ refresh_task.pc = "resolving"
    /\ lastMonacoMsg.type = "MarketPriceUpdate"
    /\ ~lastMonacoMsg.handled

\* A refresh that did not find the fixture again has ended and the markets,
\* mapped before, are left without a fixture_id
UnmappedAfterRefresh ==
    /\ refresh_task.pc = "idle"
    /\ refresh_task.found = Some("none")
    /\ Resolved(market_map) = {}


\* ---------------------------------------------------------------------------
\* Closing one of a fixture's markets of a market type (SpecMonaco)
\* ---------------------------------------------------------------------------

\* The mapping keys of the other markets of the fixture and market type of
\* the market the latest message names
SiblingMarkets ==
    LET closed == Unwrap(MappedMarket(lastMonacoMsg.message))
        closed_key == mapping_key(Unwrap(lastMonacoMsg.message.eventId),
                                  Unwrap(lastMonacoMsg.message.marketId))
    IN  { k \in DOMAIN market_mapping :
            /\ k # closed_key
            /\ market_mapping[k].fixture_id = closed.fixture_id
            /\ market_mapping[k].market_type = closed.market_type
            /\ IsSome(market_mapping[k].outcome_mappings) }

\* The ladders a book holds for the outcomes of a market: outcome -> levels,
\* over the outcomes of the market that have an entry in the book
MarketLadders(books, mapping) ==
    LET key == MarketBookKey(mapping)
        outcomes == IF key \in DOMAIN books
                    THEN DOMAIN Unwrap(mapping.outcome_mappings) \cap DOMAIN books[key]
                    ELSE {}
    IN  [ o \in outcomes |-> books[key][o] ]

\* The latest message closed a handicap or totals market
LastClosesLineMarket ==
    /\ LastClosesMarket
    /\ Unwrap(MappedMarket(lastMonacoMsg.message)).market_type \in { "ah", "ou" }

\* C40: a closing status update of one ah or ou market leaves the ladders of
\* the outcomes of the fixture's other markets of the same market type as
\* they were before the update.
C40_CloseKeepsOtherLines ==
    LastClosesLineMarket =>
        \A k \in SiblingMarkets :
            MarketLadders(order_books, market_mapping[k])
                = MarketLadders(lastMonacoMsg.books_before, market_mapping[k])

\* What the close does keep: the books of the other market types
CloseKeepsOtherTypes ==
    LastClosesMarket =>
        \A key \in DOMAIN lastMonacoMsg.books_before :
            key # MarketBookKey(Unwrap(MappedMarket(lastMonacoMsg.message))) =>
                /\ key \in DOMAIN order_books
                /\ order_books[key] = lastMonacoMsg.books_before[key]

\* The close of one line took a level of another line with it
SiblingLadderDropped ==
    /\ LastClosesLineMarket
    /\ \E k \in SiblingMarkets :
          /\ \E o \in DOMAIN MarketLadders(lastMonacoMsg.books_before, market_mapping[k]) :
                MarketLadders(lastMonacoMsg.books_before, market_mapping[k])[o] # << >>
          /\ MarketLadders(order_books, market_mapping[k]) = EmptyMap

=============================================================================
